---------------------------- MODULE Spec2Model ----------------------------
(***************************************************************************)
(* A model of the decksage annotation crate (src/annotation/src):          *)
(*   - signals.rs    sideboard co-occurrence and temporal trend signals    *)
(*   - lib.rs        generate_candidates_fused                             *)
(*   - similarity.rs SimilarityFunction::similar                           *)
(*                                                                         *)
(* Each component is a state machine of its own (SpecSideboard,            *)
(* SpecTemporal, SpecFusion) over the module's variables; a component's    *)
(* specification leaves the other components' variables at their idle      *)
(* values.                                                                 *)
(*                                                                         *)
(* f32 values are modelled as exact rationals <<num, den>> in lowest terms *)
(* with den > 0.  Rounding of an f32 division is monotone, so orderings    *)
(* and the bounds 0 and 1 are preserved by the abstraction.                *)
(***************************************************************************)
EXTENDS Integers, Sequences, FiniteSets, TLC

VARIABLES
    \* ---- compute_sideboard_signal_impl (signals.rs) ----
    sb_pc,              \* "off" | "scan" | "done"
    min_decks,          \* the min_decks argument
    lines,              \* the deck records of the file consumed so far
    sideboard_pairs,    \* card -> other -> count
    card_sb_counts,     \* card -> count
    card_mb_counts,     \* card -> count
    card_both_counts,   \* card -> count
    cooccurrence,       \* SideboardSignal.cooccurrence
    flexibility,        \* SideboardSignal.flexibility
    \* ---- compute_temporal_signal_impl, find_trending_pairs (signals.rs) ----
    t_pc,                   \* "off" | "read" | "track" | "done" | "failed"
    t_deck,                 \* <<the timestamp fields of the line last read>>
    min_decks_per_month,    \* the min_decks_per_month argument
    monthly_decks,          \* month -> the card sets of its decks
    monthly_cooccurrence,   \* month -> card -> other -> frequency
    t_idx,                  \* position of the loop over the sorted months
    pair_trends,            \* pair key -> frequencies pushed so far
    trending_pairs,         \* TemporalSignal.trending_pairs
    \* ---- generate_candidates_fused (lib.rs), similar (similarity.rs) ----
    f_pc,           \* "off" | "idle" | "sim" | "done"
    f_entry,        \* the function called: "none" | "fused" | "similar"
    f_k,            \* the k argument of similar
    f_step,         \* the signal block of similar to run next (1..5, 6: fuse)
    f_status,       \* per signal block run: "none" | "nodata" | "data"
    sources,        \* the sources vector
    f_result,       \* the Result returned
    \* ---- TemporalSignal::similarity (signals.rs) ----
    ts_pc,          \* "off" | "ready" | "done"
    ts_query,       \* the query argument
    ts_candidate,   \* the candidate argument
    ts_result,      \* the f32 returned
    \* ---- MetricWithCI::from_scores (eval.rs) ----
    b_pc,           \* "off" | "ready" | "once" | "twice"
    b_scores,       \* the scores argument
    n_bootstrap,    \* the n_bootstrap argument
    b_first,        \* what the first evaluation returned
    b_second,       \* what the second evaluation of the same input returned
    \* ---- evaluate_similarity (eval.rs) ----
    e_pc,               \* "off" | "loop" | "done"
    top_k,              \* the top_k argument
    e_n_bootstrap,      \* the n_bootstrap argument
    e_queries,          \* the keys of test_set.queries iterated so far
    e_labels,           \* labels of the iteration
    e_predictions,      \* predictions of the iteration (cards only)
    precision_scores,
    recall_scores,
    ndcg_scores,
    mrr_scores,
    e_result,           \* the EvaluationMetrics returned, or the panic
    \* ---- QueryGenerator (query.rs) ----
    q_pc,           \* "off" | "new" | "sample" | "done"
    degree_map,     \* the degree_map both generators are built from
    q_cards,        \* the cards field of each generator built so far
    q_args,         \* the arguments of the sample calls
    q_results,      \* what sample returned on each generator so far
    \* ---- TestSet (test_set.rs) ----
    m_pc,           \* "off" | "start" | "loaded" | "merged" | "saved" | "reloaded"
    m_file,         \* the JSON file of the test set
    test_set,       \* the TestSet in memory
    m_batch,        \* the tasks of the batch merged last
    m_before        \* the TestSet before the last merge or save

sbVars == <<sb_pc, min_decks, lines, sideboard_pairs, card_sb_counts,
            card_mb_counts, card_both_counts, cooccurrence, flexibility>>

tVars == <<t_pc, t_deck, min_decks_per_month, monthly_decks, monthly_cooccurrence,
           t_idx, pair_trends, trending_pairs>>

fVars == <<f_pc, f_entry, f_k, f_step, f_status, sources, f_result>>

tsVars == <<ts_pc, ts_query, ts_candidate, ts_result>>

bVars == <<b_pc, b_scores, n_bootstrap, b_first, b_second>>

eVars == <<e_pc, top_k, e_n_bootstrap, e_queries, e_labels, e_predictions,
           precision_scores, recall_scores, ndcg_scores, mrr_scores, e_result>>

qVars == <<q_pc, degree_map, q_cards, q_args, q_results>>

mVars == <<m_pc, m_file, test_set, m_batch, m_before>>

vars == <<sbVars, tVars, fVars, tsVars, bVars, eVars, qVars, mVars>>

\* The variables a component leaves alone.
notSbVars == <<tVars, fVars, tsVars, bVars, eVars, qVars, mVars>>
notTVars == <<sbVars, fVars, tsVars, bVars, eVars, qVars, mVars>>
notFVars == <<sbVars, tVars, tsVars, bVars, eVars, qVars, mVars>>
notTsVars == <<sbVars, fVars, bVars, eVars, qVars, mVars>>
notBVars == <<sbVars, tVars, fVars, tsVars, eVars, qVars, mVars>>
notEVars == <<sbVars, tVars, fVars, tsVars, bVars, qVars, mVars>>
notQVars == <<sbVars, tVars, fVars, tsVars, bVars, eVars, mVars>>
notMVars == <<sbVars, tVars, fVars, tsVars, bVars, eVars, qVars>>

-----------------------------------------------------------------------------
(* Bounds of the model *)

\* Longest deck file scanned by the sideboard builder.
MaxDecks == 3
\* Largest min_decks threshold tried.
MaxMinDecks == 2

\* Number of calendar months the deck file of the temporal builder spans.
MaxMonths == 3

\* Most months in a TemporalSignal handed to TemporalSignal::similarity.
MaxTableMonths == 4

\* Largest top_k handed to evaluate_similarity.
MaxTopK == 2
\* Longest prediction list the ranking function returns.
MaxPredictions == 3

\* Largest n handed to QueryGenerator::sample.
MaxSample == 3

\* Longest score sequence handed to MetricWithCI::from_scores.
MaxScores == 2
\* Largest n_bootstrap handed to MetricWithCI::from_scores.
MaxBootstrap == 2

\* Most sources handed to generate_candidates_fused in a direct call.
MaxSources == 2
\* Most (card, score) entries over all the source lists of one call.
MaxEntries == 3
\* Most (card, score) entries over all the sources similar pushes in one call.
MaxSignalEntries == 2
\* Largest k argument of similar.
MaxK == 1

\* Card names.
Cards == {"A", "B", "C"}
\* Cards that the enumerated decks may also hold in the main deck.
MainCards == {"A"}

-----------------------------------------------------------------------------
(* Rationals: the exact value of an f32 quotient *)

RECURSIVE Gcd(_, _)
Gcd(a, b) == IF b = 0 THEN a ELSE Gcd(b, a % b)

Abs(x) == IF x < 0 THEN -x ELSE x

\* n / d in lowest terms, d > 0
Rat(n, d) ==
    LET g == Gcd(Abs(n), Abs(d))
        s == IF d < 0 THEN -1 ELSE 1
    IN  <<(s * n) \div g, (s * d) \div g>>

Zero == <<0, 1>>
One == <<1, 1>>

RatLeq(a, b) == a[1] * b[2] <= b[1] * a[2]
RatLt(a, b) == a[1] * b[2] < b[1] * a[2]
RatSub(a, b) == Rat(a[1] * b[2] - b[1] * a[2], a[2] * b[2])
RatDivInt(a, k) == Rat(a[1], a[2] * k)
RatAbs(a) == <<Abs(a[1]), a[2]>>
RatAdd(a, b) == Rat(a[1] * b[2] + b[1] * a[2], a[2] * b[2])
RatMulInt(a, k) == Rat(a[1] * k, a[2])
\* a / b for b # 0
RatDiv(a, b) == Rat(a[1] * b[2], a[2] * b[1])

-----------------------------------------------------------------------------
(* HashMap helpers: a map is a function whose DOMAIN is its key set *)

EmptyMap == [k \in {} |-> 0]

\* map.get(k).copied().unwrap_or(d)
Get(m, k, d) == IF k \in DOMAIN m THEN m[k] ELSE d

\* *map.entry(k).or_insert(0) += 1 for every k of keys
IncAll(m, keys) ==
    [k \in DOMAIN m \cup keys |->
        IF k \in keys THEN Get(m, k, 0) + 1 ELSE m[k]]

\* The stable sort (slice::sort_by) of seq; before is the comparator's strict
\* order as the set of index pairs <<i, j>> with seq[i] ordered before seq[j].
StableSort(seq, before) ==
    LET n == Len(seq)
        Pos(i) == 1 + Cardinality({j \in 1..n :
                        \/ <<j, i>> \in before
                        \/ (<<i, j>> \notin before /\ j < i)})
    IN  [p \in 1..n |-> seq[CHOOSE i \in 1..n : Pos(i) = p]]

-----------------------------------------------------------------------------
(* compute_sideboard_signal_impl: the scan loop *)

\* A deck record after lines 68-80: its sideboard set and its main-deck set.
Decks == [sb : SUBSET Cards, mb : SUBSET MainCards]

\* Mutant of SkipsDeck: no deck is skipped.
SkipsDeckNever(deck) == FALSE

\* Line 82: if sb_cards.len() < 2 { continue; }
SkipsDeck(deck) == Cardinality(deck.sb) < 2

\* Lines 87-99: the directed pair counters after one deck.
PairsAfter(pairs, deck) ==
    [card \in DOMAIN pairs \cup deck.sb |->
        IF card \in deck.sb
        THEN IncAll(Get(pairs, card, EmptyMap), deck.sb \ {card})
        ELSE pairs[card]]

\* Line 88: each sideboard card's own counter.
SbCountsAfter(counts, deck) == IncAll(counts, deck.sb)

\* Lines 102-104: cards in both partitions of the deck.
BothCountsAfter(counts, deck) == IncAll(counts, deck.mb \cap deck.sb)

\* Mutant of MbCountsAfter: a main-deck card that is in the sideboard as well
\* is not counted.
MbCountsAfterMainOnly(counts, deck) == IncAll(counts, deck.mb \ deck.sb)

\* Lines 105-107: main-deck cards.
MbCountsAfter(counts, deck) == IncAll(counts, deck.mb)

-----------------------------------------------------------------------------
(* compute_sideboard_signal_impl: after the scan *)

\* Mutant of Frequency: divides by the partner's total instead of the card's.
FrequencyByPartner(count, total, other_total) == Rat(count, other_total)

\* Line 121: count as f32 / total as f32 (other_total is the partner's
\* counter, read at line 120 and not used by the quotient).
Frequency(count, total, other_total) == Rat(count, total)

\* Lines 111-128.
CooccurrenceOf(pairs, sb_counts, m) ==
    LET Partners(card) ==
            {other \in DOMAIN pairs[card] : Get(sb_counts, other, 0) >= m}
        Kept == {card \in DOMAIN pairs :
                    /\ ~(Get(sb_counts, card, 0) < m)
                    /\ Partners(card) # {}}
    IN  [card \in Kept |->
            [other \in Partners(card) |->
                Frequency(pairs[card][other], Get(sb_counts, card, 0),
                          Get(sb_counts, other, 0))]]

\* Mutant of FlexTotal: subtracts the overlap from both counters.
FlexTotalExclusive(mb_count, sb_count, both_count) ==
    (mb_count - both_count) + (sb_count - both_count)

\* Line 135: let total = mb_count + sb_count - both_count;
FlexTotal(mb_count, sb_count, both_count) == mb_count + sb_count - both_count

\* Lines 131-140.
FlexibilityOf(both_counts, mb_counts, sb_counts) ==
    LET Total(card) == FlexTotal(Get(mb_counts, card, 0),
                                 Get(sb_counts, card, 0), both_counts[card])
        Kept == {card \in DOMAIN both_counts : Total(card) > 0}
    IN  [card \in Kept |-> Rat(both_counts[card], Total(card))]

\* SideboardSignal::similarity (lines 33-39)
Similarity(table, query, candidate) ==
    IF query \in DOMAIN table /\ candidate \in DOMAIN table[query]
    THEN table[query][candidate]
    ELSE Zero

\* SideboardSignal::flexibility_score (lines 42-44)
FlexibilityScore(flex, card) == Get(flex, card, Zero)

-----------------------------------------------------------------------------
(* parse_deck_date (signals.rs lines 370-399) *)

\* An Option<String> timestamp field is <<>> (None) or <<s>>, and a timestamp
\* string s is named by what parsing makes of it: the number of the month it
\* denotes, or Unparseable when every format and the flexible parser reject
\* it.
Unparseable == 0

NoneField == <<>>

\* The timestamp fields of a DeckRecord (lines 406-411).
DeckRecordDates(date, scraped_at, created_at) ==
    [date |-> date, scraped_at |-> scraped_at, created_at |-> created_at]

\* t_deck when no deck line has been read; <<deck>> after a line.
NoDeck == <<>>

DateOk(month) == [tag |-> "Ok", month |-> month]
DateErr == [tag |-> "Err", month |-> 0]

\* Mutant of FirstPresent: an unparseable field falls through to the next.
FirstParseable(deck) ==
    LET Usable(field) == field # NoneField /\ field[1] # Unparseable
    IN  IF Usable(deck.date) THEN deck.date
        ELSE IF Usable(deck.scraped_at) THEN deck.scraped_at
        ELSE IF Usable(deck.created_at) THEN deck.created_at
        ELSE IF deck.date # NoneField THEN deck.date
        ELSE IF deck.scraped_at # NoneField THEN deck.scraped_at
        ELSE deck.created_at

\* Lines 372-376: date.or(scraped_at).or(created_at)
FirstPresent(deck) ==
    IF deck.date # NoneField THEN deck.date
    ELSE IF deck.scraped_at # NoneField THEN deck.scraped_at
    ELSE deck.created_at

\* Lines 370-399, and line 245: the month key of the date.
ParseDeckDate(deck) ==
    LET date_str == FirstPresent(deck)
    IN  IF date_str = NoneField THEN DateErr
        ELSE IF date_str[1] = Unparseable THEN DateErr
        ELSE DateOk(date_str[1])

-----------------------------------------------------------------------------
(* MetricWithCI::from_scores (eval.rs lines 40-81) *)

\* f64 values are exact rationals, as the f32 values above.  The standard
\* deviation is kept as the square root of a rational.
Sqrt(x) == [radicand |-> x]

\* MetricWithCI
MetricWithCI(mean, std_dev, ci_95, n) ==
    [mean |-> mean, std_dev |-> std_dev, ci_95 |-> ci_95, n |-> n]

\* Lines 42-47
ZeroMetric == MetricWithCI(Zero, Sqrt(Zero), <<Zero, Zero>>, 0)

\* What a call hands back: the value returned, or the panic of an index out
\* of bounds (lines 72-73).
MetricOk(metric) == [tag |-> "Ok", value |-> metric]
Panic == [tag |-> "Panic", value |-> ZeroMetric]
NoMetric == [tag |-> "None", value |-> ZeroMetric]

\* iter().sum::<f64>()
RECURSIVE SumOf(_)
SumOf(seq) ==
    IF seq = <<>> THEN Zero ELSE RatAdd(seq[1], SumOf(Tail(seq)))

\* Line 50 and line 67: sum / len, for a non-empty sequence.
MeanOf(seq) == RatDivInt(SumOf(seq), Len(seq))

\* A common denominator of the values of seq.
RECURSIVE CommonDen(_)
CommonDen(seq) ==
    IF seq = <<>> THEN 1
    ELSE LET d == CommonDen(Tail(seq))
         IN  (seq[1][2] * d) \div Gcd(seq[1][2], d)

\* Lines 51-55: the mean of the squared distances to the mean, for a
\* non-empty sequence; computed over a common denominator d, where the
\* value i is num[i] / d, the mean is s / (n * d) and a distance is
\* (n * num[i] - s) / (n * d).
VarianceOf(seq) ==
    LET n == Len(seq)
        d == CommonDen(seq)
        num == [i \in 1..n |-> seq[i][1] * (d \div seq[i][2])]
        Total[i \in 0..n] == IF i = 0 THEN 0 ELSE Total[i - 1] + num[i]
        s == Total[n]
        Squares[i \in 0..n] ==
            IF i = 0 THEN 0
            ELSE Squares[i - 1] + (n * num[i] - s) * (n * num[i] - s)
    IN  Rat(Squares[n], n * n * n * d * d)

\* Lines 61-67: the means a resample can have; every draw of
\* fastrand::usize(..scores.len()) is any index of scores, the global
\* generator being seeded from the environment.
ResampleMeans(scores) ==
    { MeanOf([i \in 1..Len(scores) |-> scores[idx[i]]]) :
        idx \in [1..Len(scores) -> 1..Len(scores)] }

\* Lines 72-73: 0.025 and 0.975, in thousandths.
LowerPermille == 25
UpperPermille == 975

\* (n_bootstrap as f64 * p) as usize: the product truncated.
CiIndex(n, permille) == (n * permille) \div 1000

\* Mutant of MeanBefore: the resample means sorted in descending order.
MeanBeforeDescending(a, b) == RatLt(b, a)

\* Line 71: a.partial_cmp(b)
MeanBefore(a, b) == RatLt(a, b)

\* Lines 71-80 for the resample means pushed by the loop.
FromMeans(scores, bootstrap_means) ==
    LET n == Len(bootstrap_means)
        sorted == StableSort(bootstrap_means,
                      {p \in (1..n) \X (1..n) :
                          MeanBefore(bootstrap_means[p[1]],
                                     bootstrap_means[p[2]])})
        lower == CiIndex(n, LowerPermille)
        upper == CiIndex(n, UpperPermille)
    IN  IF ~(lower < n) \/ ~(upper < n) THEN Panic
        ELSE MetricOk(MetricWithCI(MeanOf(scores), Sqrt(VarianceOf(scores)),
                                    <<sorted[lower + 1], sorted[upper + 1]>>,
                                    Len(scores)))

\* Mutant of FromScores: the guard for an empty sequence is missing, so an
\* empty sequence runs into the empty range of the draw or the index into
\* the empty list of means.
FromScoresUnguarded(scores, n) ==
    IF scores = <<>> THEN {Panic}
    ELSE { FromMeans(scores, bootstrap_means) :
             bootstrap_means \in [1..n -> ResampleMeans(scores)] }

\* The outcomes of from_scores(scores, n), over the draws of the generator.
FromScores(scores, n) ==
    IF scores = <<>> THEN {MetricOk(ZeroMetric)}
    ELSE { FromMeans(scores, bootstrap_means) :
             bootstrap_means \in [1..n -> ResampleMeans(scores)] }

-----------------------------------------------------------------------------
(* RelevanceLabels (test_set.rs lines 27-57) *)

\* RelevanceLabels::new
NewLabels ==
    [highly_relevant |-> <<>>, relevant |-> <<>>, somewhat_relevant |-> <<>>,
     marginally_relevant |-> <<>>, irrelevant |-> <<>>]

\* RelevanceLabels::add
Add(labels, card, relevance) ==
    CASE relevance = 4 ->
            [labels EXCEPT !.highly_relevant = Append(@, card)]
      [] relevance = 3 ->
            [labels EXCEPT !.relevant = Append(@, card)]
      [] relevance = 2 ->
            [labels EXCEPT !.somewhat_relevant = Append(@, card)]
      [] relevance = 1 ->
            [labels EXCEPT !.marginally_relevant = Append(@, card)]
      [] relevance = 0 ->
            [labels EXCEPT !.irrelevant = Append(@, card)]
      [] OTHER -> labels

RECURSIVE AddAll(_, _)
AddAll(labels, graded) ==
    IF graded = <<>> THEN labels
    ELSE AddAll(Add(labels, graded[1][1], graded[1][2]), Tail(graded))

-----------------------------------------------------------------------------
(* evaluate_similarity (eval.rs lines 97-183): one query *)

\* The cards of the test sets and of the prediction lists.
EvalCards == {"A", "B"}

\* The label sets of the enumerated test sets: A graded 0..4 or not at all,
\* B graded 3, 1 or not at all, and A graded twice.
GradedLists ==
    {<<>>}
    \cup { <<<<"A", r>>>> : r \in 0..4 }
    \cup { <<<<"B", r>>>> : r \in {1, 3} }
    \cup { <<<<"A", r>>, <<"B", s>>>> : r \in 0..4, s \in {1, 3} }
    \cup { <<<<"A", 4>>, <<"A", 4>>>>, <<<<"A", 4>>, <<"A", 3>>>>,
           <<<<"A", 2>>, <<"A", 0>>>> }

LabelSets == { AddAll(NewLabels, graded) : graded \in GradedLists }

\* The lists a ranking function may return.
PredictionLists ==
    UNION { [1..n -> EvalCards] : n \in 0..MaxPredictions }

\* Mutant of AllRelevant: the marginally relevant cards count too.
AllRelevantWithMarginal(labels) ==
    labels.highly_relevant \o labels.relevant \o labels.somewhat_relevant
        \o labels.marginally_relevant

\* Lines 113-119
AllRelevant(labels) ==
    labels.highly_relevant \o labels.relevant \o labels.somewhat_relevant

\* Lines 121-122
RelevantSet(all_relevant) ==
    {all_relevant[i] : i \in 1..Len(all_relevant)}

\* iter().take(n)
Take(seq, n) == IF Len(seq) <= n THEN seq ELSE SubSeq(seq, 1, n)

\* Lines 125-129
RelevantInTopK(predictions, relevant_set, k) ==
    Cardinality({i \in 1..Len(Take(predictions, k)) :
                    predictions[i] \in relevant_set})

\* Lines 130-134
PrecisionOf(relevant_in_top_k, k) ==
    IF k > 0 THEN Rat(relevant_in_top_k, k) ELSE Zero

\* Lines 138-142
RecallOf(relevant_in_top_k, all_relevant) ==
    IF all_relevant # <<>> THEN Rat(relevant_in_top_k, Len(all_relevant))
    ELSE Zero

\* 1 / ln(x) in thousandths, for x in 2..10 (the f64 value rounded).
InvLn(x) ==
    <<1443, 910, 721, 621, 558, 514, 481, 455, 434>>[x - 1]

\* Lines 152 and 162: 1.0 / (rank as f64 + 2.0).ln_1p(), and ln_1p(x) is
\* ln(1 + x).
Discount(rank) == InvLn(1 + (rank + 2))

\* Lines 146-158: the DCG, in thousandths.
RECURSIVE DcgOf(_, _, _)
DcgOf(top, relevant_set, i) ==
    IF i > Len(top) THEN 0
    ELSE (IF top[i] \in relevant_set THEN Discount(i - 1) ELSE 0)
             + DcgOf(top, relevant_set, i + 1)

\* Lines 161-163: the ideal DCG, in thousandths.
RECURSIVE IdealDcgOf(_)
IdealDcgOf(n) ==
    IF n = 0 THEN 0 ELSE Discount(n - 1) + IdealDcgOf(n - 1)

\* Line 165: the quotient, kept to hundredths (truncated).
NdcgOf(dcg, ideal_dcg) ==
    IF ideal_dcg > 0 THEN Rat((100 * dcg) \div ideal_dcg, 100) ELSE Zero

\* Mutant of MrrOf: the reciprocal of the 0-based rank plus two.
MrrOfShifted(predictions, relevant_set) ==
    LET hits == {i \in 1..Len(predictions) : predictions[i] \in relevant_set}
    IN  IF hits = {} THEN Zero
        ELSE Rat(1, 1 + CHOOSE i \in hits : \A j \in hits : i <= j)

\* Lines 169-173
MrrOf(predictions, relevant_set) ==
    LET hits == {i \in 1..Len(predictions) : predictions[i] \in relevant_set}
    IN  IF hits = {} THEN Zero
        ELSE Rat(1, CHOOSE i \in hits : \A j \in hits : i <= j)

\* EvaluationMetrics
EvaluationMetrics(precision, recall, ndcg, mrr, n) ==
    [tag |-> "Ok", precision_at_k |-> precision, recall_at_k |-> recall,
     ndcg_at_k |-> ndcg, mrr |-> mrr, n_queries |-> n]

\* from_scores panicked inside evaluate_similarity.
EvalPanic ==
    [tag |-> "Panic", precision_at_k |-> ZeroMetric, recall_at_k |-> ZeroMetric,
     ndcg_at_k |-> ZeroMetric, mrr |-> ZeroMetric, n_queries |-> 0]

NoMetrics ==
    [tag |-> "None", precision_at_k |-> ZeroMetric, recall_at_k |-> ZeroMetric,
     ndcg_at_k |-> ZeroMetric, mrr |-> ZeroMetric, n_queries |-> 0]

-----------------------------------------------------------------------------
(* QueryGenerator (query.rs lines 20-85) *)

\* The arguments of sample.
SampleArgs(n, strategy, exclude, seed) ==
    [n |-> n, strategy |-> strategy, exclude |-> exclude, seed |-> seed]

NoArgs == SampleArgs(0, "none", {}, 0)

SampleOk(list) == [tag |-> "Ok", list |-> list]
\* The panic of the overflow check of a debug build (line 77).
SamplePanic == [tag |-> "Panic", list |-> <<>>]

\* StdRng: a deterministic generator; its state after seed_from_u64(seed),
\* its next state, and a draw below bound (with the state it leaves).
SeedFromU64(seed) == (7 * seed + 1) % 16
NextRng(rng) == (5 * rng + 3) % 16
GenRange(rng, bound) == [value |-> (rng \div 2) % bound, rng |-> NextRng(rng)]

Swap(seq, i, j) == [seq EXCEPT ![i] = seq[j], ![j] = seq[i]]

\* SliceRandom::shuffle: for i from the last position down to the second,
\* swap position i with a position drawn from the first i.
RECURSIVE ShuffleFrom(_, _, _)
ShuffleFrom(seq, i, rng) ==
    IF i < 2 THEN [list |-> seq, rng |-> rng]
    ELSE LET draw == GenRange(rng, i)
         IN  ShuffleFrom(Swap(seq, i, draw.value + 1), i - 1, draw.rng)

Shuffle(seq, rng) == ShuffleFrom(seq, Len(seq), rng)

\* SliceRandom::choose_multiple: amount.min(len) elements, picked by swapping
\* each of the first positions with a position drawn from the rest.
RECURSIVE ChooseFrom(_, _, _, _)
ChooseFrom(seq, i, amount, rng) ==
    IF i > amount THEN [list |-> SubSeq(seq, 1, amount), rng |-> rng]
    ELSE LET draw == GenRange(rng, Len(seq) - i + 1)
         IN  ChooseFrom(Swap(seq, i, i + draw.value), i + 1, amount, draw.rng)

ChooseMultiple(seq, amount, rng) ==
    ChooseFrom(seq, 1, IF amount < Len(seq) THEN amount ELSE Len(seq), rng)

\* Lines 61-64 and 69: sort_by_key(Reverse(degree)).
DegreeBefore(degrees, a, b) == Get(degrees, b, 0) < Get(degrees, a, 0)

SortByDegree(degrees, seq) ==
    StableSort(seq, {p \in (1..Len(seq)) \X (1..Len(seq)) :
                        DegreeBefore(degrees, seq[p[1]], seq[p[2]])})

\* Lines 67-81, for the amounts of the three tiers.
StratifiedWith(sorted, n_third, low_amount, rng) ==
    LET len == Len(sorted)
        third == len \div 3
        high == ChooseMultiple(SubSeq(sorted, 1, third),
                               IF n_third < third THEN n_third ELSE third, rng)
        mid == ChooseMultiple(SubSeq(sorted, third + 1, (2 * len) \div 3),
                              IF n_third < third THEN n_third ELSE third,
                              high.rng)
        low == ChooseMultiple(SubSeq(sorted, (2 * len) \div 3 + 1, len),
                              low_amount, mid.rng)
    IN  SampleOk(Shuffle(high.list \o mid.list \o low.list, low.rng).list)

\* The outcomes of sample on a generator with the cards vector `cards`.  The
\* usize subtraction n - 2 * n_third of line 77 overflows when it is
\* negative: a build with overflow checks panics, a build without wraps to
\* an amount above every length.
Sample(cards, degrees, args) ==
    LET rng == SeedFromU64(args.seed)
        available == SelectSeq(cards, LAMBDA c : c \notin args.exclude)
        n == IF args.n < Len(available) THEN args.n ELSE Len(available)
    IN  IF available = <<>> THEN {SampleOk(<<>>)}
        ELSE CASE args.strategy = "Random" ->
                    {SampleOk(Take(Shuffle(available, rng).list, n))}
               [] args.strategy = "Popular" ->
                    {SampleOk(Take(SortByDegree(degrees, available), n))}
               [] args.strategy = "Stratified" ->
                    LET sorted == SortByDegree(degrees, available)
                        n_third == IF n \div 3 < 1 THEN 1 ELSE n \div 3
                    IN  IF n - 2 * n_third < 0
                        THEN {SamplePanic,
                              StratifiedWith(sorted, n_third, Len(sorted), rng)}
                        ELSE {StratifiedWith(sorted, n_third,
                                             n - 2 * n_third, rng)}

-----------------------------------------------------------------------------
(* TestSet and its JSON file (test_set.rs lines 9-21, 59-76) *)

\* Option<usize>: Some(n); None is NoneField.
Some(n) == <<n>>

\* The fields of TestSet the operations act on; version, game and
\* description are carried through unchanged.
TestSet(num_queries, queries) ==
    [num_queries |-> num_queries, queries |-> queries]

NoTestSet == TestSet(NoneField, EmptyMap)

\* The JSON document of a test set: num_queries is present or absent, and
\* queries is the list of (name, object) members in the order of the text,
\* each object the list of its (field, array) members.
JsonFile(num_queries, queries) ==
    [num_queries |-> num_queries, queries |-> queries]

NoFile == JsonFile(NoneField, <<>>)

-----------------------------------------------------------------------------
(* The idle values of the components *)

SideboardIdle ==
    /\ sb_pc = "off"
    /\ min_decks = 0
    /\ lines = <<>>
    /\ sideboard_pairs = EmptyMap
    /\ card_sb_counts = EmptyMap
    /\ card_mb_counts = EmptyMap
    /\ card_both_counts = EmptyMap
    /\ cooccurrence = EmptyMap
    /\ flexibility = EmptyMap

TemporalIdle ==
    /\ t_pc = "off"
    /\ t_deck = NoDeck
    /\ min_decks_per_month = 0
    /\ monthly_decks = EmptyMap
    /\ monthly_cooccurrence = EmptyMap
    /\ t_idx = 0
    /\ pair_trends = EmptyMap
    /\ trending_pairs = <<>>

FusionIdle ==
    /\ f_pc = "off"
    /\ f_entry = "none"
    /\ f_k = 0
    /\ f_step = 0
    /\ f_status = <<>>
    /\ sources = <<>>
    /\ f_result = [tag |-> "None", list |-> <<>>]

SimilarityIdle ==
    /\ ts_pc = "off"
    /\ ts_query = "none"
    /\ ts_candidate = "none"
    /\ ts_result = <<0, 1>>

\* The components other than the two signal builders and the fusion.
BootstrapIdle ==
    /\ b_pc = "off"
    /\ b_scores = <<>>
    /\ n_bootstrap = 0
    /\ b_first = NoMetric
    /\ b_second = NoMetric

EvalIdle ==
    /\ e_pc = "off"
    /\ top_k = 0
    /\ e_n_bootstrap = 0
    /\ e_queries = {}
    /\ e_labels = NewLabels
    /\ e_predictions = <<>>
    /\ precision_scores = <<>>
    /\ recall_scores = <<>>
    /\ ndcg_scores = <<>>
    /\ mrr_scores = <<>>
    /\ e_result = NoMetrics

QueryIdle ==
    /\ q_pc = "off"
    /\ degree_map = EmptyMap
    /\ q_cards = <<>>
    /\ q_args = NoArgs
    /\ q_results = <<>>

TestSetIdle ==
    /\ m_pc = "off"
    /\ m_file = NoFile
    /\ test_set = NoTestSet
    /\ m_batch = <<>>
    /\ m_before = NoTestSet

LaterIdle ==
    /\ SimilarityIdle
    /\ BootstrapIdle
    /\ EvalIdle
    /\ QueryIdle
    /\ TestSetIdle

-----------------------------------------------------------------------------
(* The sideboard builder as a state machine *)

InitSideboard ==
    /\ TemporalIdle
    /\ FusionIdle
    /\ LaterIdle
    /\ sb_pc = "scan"
    /\ min_decks \in 0..MaxMinDecks
    /\ lines = <<>>
    /\ sideboard_pairs = EmptyMap
    /\ card_sb_counts = EmptyMap
    /\ card_mb_counts = EmptyMap
    /\ card_both_counts = EmptyMap
    /\ cooccurrence = EmptyMap
    /\ flexibility = EmptyMap

\* One iteration of the loop over content.lines() (lines 60-108).
ScanDeck(deck) ==
    /\ sb_pc = "scan"
    /\ Len(lines) < MaxDecks
    /\ lines' = Append(lines, deck)
    /\ IF SkipsDeck(deck)
       THEN UNCHANGED <<sideboard_pairs, card_sb_counts, card_mb_counts,
                        card_both_counts>>
       ELSE /\ sideboard_pairs' = PairsAfter(sideboard_pairs, deck)
            /\ card_sb_counts' = SbCountsAfter(card_sb_counts, deck)
            /\ card_both_counts' = BothCountsAfter(card_both_counts, deck)
            /\ card_mb_counts' = MbCountsAfter(card_mb_counts, deck)
    /\ UNCHANGED <<sb_pc, min_decks, cooccurrence, flexibility>>
    /\ UNCHANGED notSbVars

\* End of input: lines 110-145.
FinishSideboard ==
    /\ sb_pc = "scan"
    /\ sb_pc' = "done"
    /\ cooccurrence' = CooccurrenceOf(sideboard_pairs, card_sb_counts, min_decks)
    /\ flexibility' = FlexibilityOf(card_both_counts, card_mb_counts,
                                    card_sb_counts)
    /\ UNCHANGED <<min_decks, lines, sideboard_pairs, card_sb_counts,
                   card_mb_counts, card_both_counts>>
    /\ UNCHANGED notSbVars

NextSideboard ==
    \/ \E deck \in Decks : ScanDeck(deck)
    \/ FinishSideboard

SpecSideboard == InitSideboard /\ [][NextSideboard]_vars

-----------------------------------------------------------------------------
(* The sideboard table against the scanned decks *)

\* The scanned decks that carry a pairwise signal (two or more sideboard cards).
PairedDecks == {i \in 1..Len(lines) : Cardinality(lines[i].sb) >= 2}

\* Number of those decks whose sideboard holds the card.
SideboardCount(card) == Cardinality({i \in PairedDecks : card \in lines[i].sb})

\* Number of decks whose sideboard holds both cards.
PairCount(card, partner) ==
    Cardinality({i \in 1..Len(lines) : {card, partner} \subseteq lines[i].sb})

InUnit(r) == r[2] > 0 /\ 0 <= r[1] /\ r[1] <= r[2]

PartnersOf(card) == DOMAIN Get(cooccurrence, card, EmptyMap)

\* The three decks of the asymmetry example, in any order, with m = 2.
C1_Decks ==
    /\ sb_pc = "done"
    /\ min_decks = 2
    /\ Len(lines) = 3
    /\ \E i, j, k \in 1..3 :
        /\ {i, j, k} = 1..3
        /\ lines[i].sb = {"A", "B"}
        /\ lines[j].sb = {"A", "B", "C"}
        /\ lines[k].sb = {"A"}

\* C1 as stated: on sideboards {A,B}, {A,B,C}, {A} with m = 2,
\* similarity(A,B) = 2/3, similarity(B,A) = 1 and C is in neither map.
C1_Original ==
    C1_Decks =>
        /\ Similarity(cooccurrence, "A", "B") = Rat(2, 3)
        /\ Similarity(cooccurrence, "B", "A") = One
        /\ "C" \notin PartnersOf("A")
        /\ "C" \notin PartnersOf("B")

\* C1 amended: the deck whose sideboard is {A} alone is skipped (fewer than
\* two sideboard cards), so A's total is 2: on sideboards {A,B}, {A,B,C}, {A}
\* with m = 2, similarity(A,B) = 2/2 = 1, similarity(B,A) = 2/2 = 1 and C is
\* in neither map.
C1_Amended ==
    C1_Decks =>
        /\ Similarity(cooccurrence, "A", "B") = One
        /\ Similarity(cooccurrence, "B", "A") = One
        /\ "C" \notin PartnersOf("A")
        /\ "C" \notin PartnersOf("B")

C1_Witness == C1_Decks

\* C2: every stored entry cooccurrence[card][partner] has card and partner
\* each counted in at least min_decks sideboards, and its value is the
\* number of sideboards holding both divided by the card's own sideboard
\* count (counts over the decks with two or more sideboard cards).
C2_FrequencyByOwnTotal ==
    sb_pc = "done" =>
        \A card \in DOMAIN cooccurrence :
            \A partner \in DOMAIN cooccurrence[card] :
                /\ SideboardCount(card) >= min_decks
                /\ SideboardCount(partner) >= min_decks
                /\ cooccurrence[card][partner] =
                       Rat(PairCount(card, partner), SideboardCount(card))

\* A finished table in which similarity(A,B) and similarity(B,A) are both
\* stored and differ.
C2_Witness ==
    /\ sb_pc = "done"
    /\ "B" \in PartnersOf("A")
    /\ "A" \in PartnersOf("B")
    /\ Similarity(cooccurrence, "A", "B") # Similarity(cooccurrence, "B", "A")

\* C3: every stored frequency and every flexibility score lies in [0,1].
C3_UnitInterval ==
    sb_pc = "done" =>
        /\ \A card \in DOMAIN cooccurrence :
              \A partner \in DOMAIN cooccurrence[card] :
                  InUnit(cooccurrence[card][partner])
        /\ \A card \in DOMAIN flexibility : InUnit(flexibility[card])

\* A finished signal holding a frequency and a flexibility strictly inside
\* (0,1).
C3_Witness ==
    /\ sb_pc = "done"
    /\ \E card \in DOMAIN cooccurrence :
          \E partner \in DOMAIN cooccurrence[card] :
              /\ RatLt(Zero, cooccurrence[card][partner])
              /\ RatLt(cooccurrence[card][partner], One)
    /\ \E card \in DOMAIN flexibility :
          /\ RatLt(Zero, flexibility[card])
          /\ RatLt(flexibility[card], One)

-----------------------------------------------------------------------------
(* compute_temporal_signal_impl: per-month co-occurrence *)

\* find_trending_pairs(&monthly_cooccurrence, 3)
MinMonths == 3
\* A card takes part in a month's table from this many decks on.
MinCardCount == 5

\* Month keys "YYYY-MM" of consecutive months, named by their position in
\* lexicographic (= chronological) order.
Months == 1..MaxMonths

\* The timestamp fields tried for the lines of month `month`; `other` is
\* another month.
DatesOf(month, other) ==
    { DeckRecordDates(NoneField, <<month>>, <<other>>),
      DeckRecordDates(<<month>>, <<Unparseable>>, <<other>>),
      DeckRecordDates(NoneField, NoneField, NoneField),
      DeckRecordDates(<<Unparseable>>, <<month>>, <<other>>) }

DeckDates == UNION { DatesOf(month, (month % MaxMonths) + 1) : month \in Months }

RECURSIVE Repeat(_, _)
Repeat(x, n) == IF n = 0 THEN <<>> ELSE <<x>> \o Repeat(x, n - 1)

\* The deck lines of one month of the enumerated files: ab decks holding
\* {A,B}, ac decks holding {A,C}, bc decks holding {B,C}, and a, b decks
\* holding one card.
MonthLines(ab, ac, bc, a, b) ==
    Repeat({"A", "B"}, ab) \o Repeat({"A", "C"}, ac) \o Repeat({"B", "C"}, bc)
        \o Repeat({"A"}, a) \o Repeat({"B"}, b)

MonthFiles ==
    { MonthLines(1, 0, 0, 4, 4),    \* A->B 1/5,  B->A 1/5
      MonthLines(3, 0, 0, 7, 7),    \* A->B 3/10, B->A 3/10
      MonthLines(5, 0, 0, 5, 5),    \* A->B 1/2,  B->A 1/2
      MonthLines(5, 1, 0, 4, 0),    \* A->B 1/2,  B->A 1, C in one deck
      MonthLines(0, 5, 0, 0, 0),    \* A->C 1,    C->A 1
      MonthLines(5, 5, 0, 0, 0),    \* A->B 1/2, B->A 1, A->C 1/2, C->A 1
      MonthLines(1, 5, 0, 0, 4),    \* A->B 1/6, B->A 1/5, A->C 5/6, C->A 1
      MonthLines(5, 5, 5, 0, 0),    \* every pair 1/2 in both directions
      MonthLines(4, 0, 0, 0, 0) }   \* no card reaches five decks

\* The thresholds tried for min_decks_per_month.
MinDecksPerMonthChoices == {0, 10}

\* Lines 261-277: card_counts of one month.
CardCounts(decks) ==
    LET Seen == UNION {decks[i] : i \in 1..Len(decks)}
    IN  [card \in Seen |->
            Cardinality({i \in 1..Len(decks) : card \in decks[i]})]

\* Lines 261-277: card_pairs of one month.
CardPairs(decks) ==
    LET Together(card, other) ==
            Cardinality({i \in 1..Len(decks) : {card, other} \subseteq decks[i]})
        Seen == UNION {decks[i] : i \in 1..Len(decks)}
        Others(card) == {other \in Seen \ {card} : Together(card, other) > 0}
    IN  [card \in {c \in Seen : Others(c) # {}} |->
            [other \in Others(card) |-> Together(card, other)]]

\* Lines 280-297: month_cooccur.
MonthCooccur(decks) ==
    LET card_pairs == CardPairs(decks)
        card_counts == CardCounts(decks)
        Partners(card) ==
            {other \in DOMAIN card_pairs[card] :
                Get(card_counts, other, 0) >= MinCardCount}
        Kept == {card \in DOMAIN card_pairs :
                    /\ ~(Get(card_counts, card, 0) < MinCardCount)
                    /\ Partners(card) # {}}
    IN  [card \in Kept |->
            [other \in Partners(card) |->
                Rat(card_pairs[card][other], Get(card_counts, card, 0))]]

\* Mutant of MonthlyCooccurrenceOf: the number of decks of the month is not
\* looked at.
MonthlyCooccurrenceOfAnySize(by_month, threshold) ==
    LET Kept == {month \in DOMAIN by_month :
                    MonthCooccur(by_month[month]) # EmptyMap}
    IN  [month \in Kept |-> MonthCooccur(by_month[month])]

\* Lines 253-302: the months kept, each with its table.
MonthlyCooccurrenceOf(by_month, threshold) ==
    LET Kept == {month \in DOMAIN by_month :
                    /\ ~(Len(by_month[month]) < threshold)
                    /\ MonthCooccur(by_month[month]) # EmptyMap}
    IN  [month \in Kept |-> MonthCooccur(by_month[month])]

-----------------------------------------------------------------------------
(* find_trending_pairs *)

\* Lines 318-319: the month keys, sorted.
RECURSIVE SortedSeq(_)
SortedSeq(S) ==
    IF S = {} THEN <<>>
    ELSE LET m == CHOOSE x \in S : \A y \in S : x <= y
         IN  <<m>> \o SortedSeq(S \ {m})

\* The orders in which a HashMap may hand out the keys S.
Orders(S) ==
    {o \in [1..Cardinality(S) -> S] : \A x \in S : \E i \in DOMAIN o : o[i] = x}

\* card1 < card2 on the card names
CardRank(card) == CASE card = "A" -> 1 [] card = "B" -> 2 [] card = "C" -> 3

\* Lines 332-336: pair_key
PairKey(card1, card2) ==
    IF CardRank(card1) < CardRank(card2)
    THEN <<card1, card2>> ELSE <<card2, card1>>

\* Lines 331-341 for one card1: every (card2, freq) of others is pushed.
PushCard(trends, card1, others) ==
    LET Keys == {PairKey(card1, card2) : card2 \in DOMAIN others}
        Card2Of(key) == CHOOSE card2 \in DOMAIN others : PairKey(card1, card2) = key
    IN  [key \in DOMAIN trends \cup Keys |->
            IF key \in Keys
            THEN Append(Get(trends, key, <<>>), others[Card2Of(key)])
            ELSE trends[key]]

\* Lines 330-342: one month, its cards handed out in the order `order`.
RECURSIVE PushMonth(_, _, _, _)
PushMonth(trends, month_data, order, i) ==
    IF i > Len(order) THEN trends
    ELSE PushMonth(PushCard(trends, order[i], month_data[order[i]]),
                   month_data, order, i + 1)

\* Lines 354-355
Trend(frequencies) ==
    RatDivInt(RatSub(frequencies[Len(frequencies)], frequencies[1]),
              Len(frequencies) - 1)

\* Line 358: trend.abs() > 0.01
Significant(trend) == RatLt(<<1, 100>>, RatAbs(trend))

\* Lines 349-361 for one pair: is it pushed to `trending`?
Reported(frequencies) ==
    /\ ~(Len(frequencies) < MinMonths)
    /\ Significant(Trend(frequencies))

\* Mutant of TrendBefore: the comparison the other way round (ascending).
TrendBeforeAscending(a, b) == RatLt(a[3], b[3])

\* Line 364: b.2.partial_cmp(&a.2): a sorts before b when its trend is larger.
TrendBefore(a, b) == RatLt(b[3], a[3])

\* Lines 347-366, the pairs handed out in the order `order`.
TrendingOf(trends, order) ==
    LET kept == SelectSeq(order, LAMBDA key : Reported(trends[key]))
        trending == [i \in 1..Len(kept) |->
                        <<kept[i][1], kept[i][2], Trend(trends[kept[i]])>>]
    IN  StableSort(trending,
            {p \in (1..Len(trending)) \X (1..Len(trending)) :
                TrendBefore(trending[p[1]], trending[p[2]])})

-----------------------------------------------------------------------------
(* The temporal builder as a state machine *)

InitTemporal ==
    /\ SideboardIdle
    /\ FusionIdle
    /\ LaterIdle
    /\ t_pc = "read"
    /\ t_deck = NoDeck
    /\ min_decks_per_month \in MinDecksPerMonthChoices
    /\ monthly_decks = EmptyMap
    /\ monthly_cooccurrence = EmptyMap
    /\ t_idx = 0
    /\ pair_trends = EmptyMap
    /\ trending_pairs = <<>>

\* Lines 236-247 over consecutive lines of the file that carry the same
\* timestamp fields: the first line whose date does not resolve makes the
\* function return the error (the ? of line 244), dropping monthly_decks.
ReadDecks(deck, decks) ==
    /\ t_pc = "read"
    /\ decks # <<>>
    /\ t_deck' = <<deck>>
    /\ LET date == ParseDeckDate(deck)
       IN  IF date.tag = "Err"
           THEN /\ t_pc' = "failed"
                /\ monthly_decks' = EmptyMap
           ELSE /\ date.month \notin DOMAIN monthly_decks
                /\ t_pc' = t_pc
                /\ monthly_decks' =
                       [m \in DOMAIN monthly_decks \cup {date.month} |->
                           IF m = date.month THEN decks ELSE monthly_decks[m]]
    /\ UNCHANGED <<min_decks_per_month, monthly_cooccurrence, t_idx,
                   pair_trends, trending_pairs>>
    /\ UNCHANGED notTVars

\* End of input: lines 249-302, then find_trending_pairs up to its early
\* return (lines 318-325).
BuildMonthly ==
    /\ t_pc = "read"
    /\ LET table == MonthlyCooccurrenceOf(monthly_decks, min_decks_per_month)
       IN  /\ monthly_cooccurrence' = table
           /\ IF Cardinality(DOMAIN table) < MinMonths
              THEN t_pc' = "done" /\ t_idx' = 0
              ELSE t_pc' = "track" /\ t_idx' = 1
    /\ t_deck' = NoDeck
    /\ UNCHANGED <<min_decks_per_month, monthly_decks, pair_trends,
                   trending_pairs>>
    /\ UNCHANGED notTVars

\* One iteration of the loop over the sorted months (lines 328-344).
TrackMonth ==
    /\ t_pc = "track"
    /\ LET months == SortedSeq(DOMAIN monthly_cooccurrence)
       IN  /\ t_idx <= Len(months)
           /\ \E order \in Orders(DOMAIN monthly_cooccurrence[months[t_idx]]) :
                 pair_trends' =
                     PushMonth(pair_trends,
                               monthly_cooccurrence[months[t_idx]], order, 1)
    /\ t_idx' = t_idx + 1
    /\ UNCHANGED <<t_pc, t_deck, min_decks_per_month, monthly_decks,
                   monthly_cooccurrence, trending_pairs>>
    /\ UNCHANGED notTVars

\* After the loop: lines 346-366.
ComputeTrends ==
    /\ t_pc = "track"
    /\ t_idx > Cardinality(DOMAIN monthly_cooccurrence)
    /\ \E order \in Orders(DOMAIN pair_trends) :
          trending_pairs' = TrendingOf(pair_trends, order)
    /\ t_pc' = "done"
    /\ UNCHANGED <<t_deck, min_decks_per_month, monthly_decks,
                   monthly_cooccurrence, t_idx, pair_trends>>
    /\ UNCHANGED notTVars

NextTemporal ==
    \/ \E deck \in DeckDates : \E decks \in MonthFiles : ReadDecks(deck, decks)
    \/ BuildMonthly
    \/ TrackMonth
    \/ ComputeTrends

SpecTemporal == InitTemporal /\ [][NextTemporal]_vars

-----------------------------------------------------------------------------
(* The outcome of the read loop against the timestamps of the lines *)

\* The timestamp fields of a deck in the order they are consulted.
FieldsOf(deck) == <<deck.date, deck.scraped_at, deck.created_at>>

\* The positions of the fields that are present.
PresentIn(deck) == {i \in 1..3 : FieldsOf(deck)[i] # <<>>}

\* The first present field of the deck is a parseable timestamp.
Resolves(deck) ==
    /\ PresentIn(deck) # {}
    /\ \E i \in PresentIn(deck) :
          /\ \A j \in PresentIn(deck) : i <= j
          /\ FieldsOf(deck)[i][1] # Unparseable

\* The month the first present field of the deck denotes.
ResolvedMonth(deck) ==
    LET i == CHOOSE i \in PresentIn(deck) : \A j \in PresentIn(deck) : i <= j
    IN  FieldsOf(deck)[i][1]

\* No TemporalSignal and no part of one exists.
NoTemporalSignal ==
    /\ monthly_decks = EmptyMap
    /\ monthly_cooccurrence = EmptyMap
    /\ trending_pairs = <<>>

\* C13: once a deck line is read whose first present timestamp field is
\* unparseable, or that has no timestamp field, the builder has failed and
\* holds no signal, whatever it read before; a line is filed under the month
\* of its first present field, and a failure has no other cause.
C13_FatalDate ==
    /\ t_pc = "read" /\ t_deck # NoDeck =>
          /\ Resolves(t_deck[1])
          /\ ResolvedMonth(t_deck[1]) \in DOMAIN monthly_decks
    /\ t_pc = "failed" =>
          /\ t_deck # NoDeck
          /\ ~Resolves(t_deck[1])
          /\ NoTemporalSignal
    /\ t_deck # NoDeck /\ ~Resolves(t_deck[1]) => t_pc = "failed"

\* The builder has failed on a line whose date field is unparseable although
\* its scraped_at and created_at fields hold parseable timestamps.
C13_Witness ==
    /\ t_pc = "failed"
    /\ t_deck # NoDeck
    /\ t_deck[1].date = <<Unparseable>>
    /\ t_deck[1].scraped_at \notin {<<>>, <<Unparseable>>}
    /\ t_deck[1].created_at \notin {<<>>, <<Unparseable>>}

-----------------------------------------------------------------------------
(* The trending pairs against the monthly table *)

\* The months of the table in which card and other co-occur.
MonthsTogether(card, other) ==
    {month \in DOMAIN monthly_cooccurrence :
        other \in DOMAIN Get(monthly_cooccurrence[month], card, EmptyMap)}

\* The frequencies the table stores for the pair in a month, one per direction.
PairFrequencies(month, card, other) ==
    {monthly_cooccurrence[month][card][other],
     monthly_cooccurrence[month][other][card]}

Min(S) == CHOOSE x \in S : \A y \in S : x <= y
Max(S) == CHOOSE x \in S : \A y \in S : y <= x

TrendingSet == {trending_pairs[i] : i \in 1..Len(trending_pairs)}

\* The table of the trend example: A and B co-occur in exactly the months
\* 1, 2 and 3, with frequency 0.2, 0.3 and 0.5 (in either direction).
C8_ExampleTable ==
    /\ t_pc = "done"
    /\ MonthsTogether("A", "B") = {1, 2, 3}
    /\ PairFrequencies(1, "A", "B") = {Rat(2, 10)}
    /\ PairFrequencies(2, "A", "B") = {Rat(3, 10)}
    /\ PairFrequencies(3, "A", "B") = {Rat(5, 10)}

\* C8 as stated: monthly frequencies 0.2, 0.3, 0.5 of (A,B) give the stored
\* trend (0.5 - 0.2) / 2 = 0.15, every stored trend being (frequency in the
\* last month the pair is observed - frequency in the first month it is
\* observed) / (number of months observed - 1).
C8_Original ==
    C8_ExampleTable =>
        /\ <<"A", "B", Rat(15, 100)>> \in TrendingSet
        /\ \A e \in TrendingSet :
            LET together == MonthsTogether(e[1], e[2])
            IN  \E first \in PairFrequencies(Min(together), e[1], e[2]) :
                \E last \in PairFrequencies(Max(together), e[1], e[2]) :
                    e[3] = RatDivInt(RatSub(last, first),
                                     Cardinality(together) - 1)

\* C9 as stated: a pair is in trending_pairs only if it co-occurs in at least
\* 3 distinct months of the monthly table.
C9_Original ==
    t_pc = "done" =>
        \A e \in TrendingSet : Cardinality(MonthsTogether(e[1], e[2])) >= 3

\* C10: every entry of trending_pairs has |trend| > 0.01, the entries are in
\* non-increasing order of trend, and no unordered pair appears twice.
C10_TrendingList ==
    t_pc = "done" =>
        /\ \A i \in 1..Len(trending_pairs) :
              RatLt(<<1, 100>>, RatAbs(trending_pairs[i][3]))
        /\ \A i, j \in 1..Len(trending_pairs) :
              i < j =>
                  /\ RatLeq(trending_pairs[j][3], trending_pairs[i][3])
                  /\ {trending_pairs[i][1], trending_pairs[i][2]}
                       # {trending_pairs[j][1], trending_pairs[j][2]}

\* A finished list of two pairs with different trends, while a third pair
\* whose frequencies were tracked was left out as insignificant.
C10_Witness ==
    /\ t_pc = "done"
    /\ Len(trending_pairs) >= 2
    /\ trending_pairs[1][3] # trending_pairs[2][3]
    /\ \E key \in DOMAIN pair_trends :
          /\ Len(pair_trends[key]) >= MinMonths
          /\ ~Significant(Trend(pair_trends[key]))

-----------------------------------------------------------------------------
(* TemporalSignal::similarity (signals.rs lines 159-197) *)

\* Line 168: .take(3)
RecentCount == 3

\* Lines 160-170: the month keys sorted, reversed, the first three taken:
\* position 1 holds the newest month of the table.
RecentMonths(table) ==
    LET sorted_months == SortedSeq(DOMAIN table)
        n == Len(sorted_months)
        taken == IF n < RecentCount THEN n ELSE RecentCount
    IN  [i \in 1..taken |-> sorted_months[n + 1 - i]]

\* Lines 182-184: the three nested lookups succeed.
HasFreq(table, month, query, candidate) ==
    /\ month \in DOMAIN table
    /\ query \in DOMAIN table[month]
    /\ candidate \in DOMAIN table[month][query]

\* Mutant of Contribution: a month lacking the pair still adds its weight.
ContributionAlways(table, month, weight, query, candidate) ==
    IF HasFreq(table, month, query, candidate)
    THEN [score |-> RatMulInt(table[month][query][candidate], weight),
          weight |-> weight]
    ELSE [score |-> Zero, weight |-> weight]

\* Lines 181-189: what one month adds to total_score and total_weight.
Contribution(table, month, weight, query, candidate) ==
    IF HasFreq(table, month, query, candidate)
    THEN [score |-> RatMulInt(table[month][query][candidate], weight),
          weight |-> weight]
    ELSE [score |-> Zero, weight |-> 0]

\* Lines 177-190: the loop; enumerate() counts from 0 and the weight is
\* (i + 1), so the month at position i of recent_months (1-based) weighs i.
RECURSIVE Accumulate(_, _, _, _, _)
Accumulate(table, recent_months, i, query, candidate) ==
    IF i > Len(recent_months) THEN [score |-> Zero, weight |-> 0]
    ELSE LET rest == Accumulate(table, recent_months, i + 1, query, candidate)
             here == Contribution(table, recent_months[i], i, query, candidate)
         IN  [score |-> RatAdd(here.score, rest.score),
              weight |-> here.weight + rest.weight]

\* The value similarity returns.
TemporalSimilarity(table, query, candidate) ==
    LET recent_months == RecentMonths(table)
    IN  IF recent_months = <<>> THEN Zero
        ELSE LET total == Accumulate(table, recent_months, 1, query, candidate)
             IN  IF total.weight > 0
                 THEN RatDiv(total.score, <<total.weight, 1>>)
                 ELSE Zero

\* The month files the enumerated signals are built from.
SimilarityFiles ==
    { MonthLines(1, 0, 0, 4, 4),    \* A->B 1/5,  B->A 1/5
      MonthLines(5, 0, 0, 5, 0),    \* A->B 1/2,  B->A 1
      MonthLines(0, 5, 0, 0, 0),    \* A->C 1,    C->A 1
      MonthLines(5, 5, 5, 0, 0) }   \* every pair 1/2 in both directions

\* The signals compute_temporal_signal builds from up to MaxTableMonths
\* months of these files.
SimilarityTables ==
    UNION { { MonthlyCooccurrenceOf(by_month, 0) :
                by_month \in [S -> SimilarityFiles] } :
            S \in SUBSET (1..MaxTableMonths) }

InitTemporalSimilarity ==
    /\ SideboardIdle
    /\ FusionIdle
    /\ t_pc = "done"
    /\ t_deck = NoDeck
    /\ min_decks_per_month = 0
    /\ monthly_decks = EmptyMap
    /\ monthly_cooccurrence \in SimilarityTables
    /\ t_idx = 0
    /\ pair_trends = EmptyMap
    /\ trending_pairs = <<>>
    /\ BootstrapIdle
    /\ EvalIdle
    /\ QueryIdle
    /\ TestSetIdle
    /\ ts_pc = "ready"
    /\ ts_query = "none"
    /\ ts_candidate = "none"
    /\ ts_result = Zero

CallTemporalSimilarity(query, candidate) ==
    /\ ts_pc = "ready"
    /\ ts_pc' = "done"
    /\ ts_query' = query
    /\ ts_candidate' = candidate
    /\ ts_result' = TemporalSimilarity(monthly_cooccurrence, query, candidate)
    /\ UNCHANGED tVars
    /\ UNCHANGED notTsVars

NextTemporalSimilarity ==
    \E query \in Cards : \E candidate \in Cards :
        CallTemporalSimilarity(query, candidate)

SpecTemporalSimilarity ==
    InitTemporalSimilarity /\ [][NextTemporalSimilarity]_vars

-----------------------------------------------------------------------------
(* The value of similarity against the monthly table *)

\* The months of the table in which the pair of the call co-occurs.
PairMonths ==
    {m \in DOMAIN monthly_cooccurrence :
        /\ ts_query \in DOMAIN monthly_cooccurrence[m]
        /\ ts_candidate \in DOMAIN monthly_cooccurrence[m][ts_query]}

\* The n chronologically most recent months of S.
NewestOf(S, n) == {m \in S : Cardinality({x \in S : x > m}) < n}

\* The frequency of the pair of the call in month m.
PairFreq(m) == monthly_cooccurrence[m][ts_query][ts_candidate]

\* The weighted mean of the pair's frequencies in the months of S, the oldest
\* month weighing 1, the next 2, and so on.
RecencyMean(S) ==
    LET Weight(m) == 1 + Cardinality({x \in S : x < m})
        seq == SortedSeq(S)
        Sum[i \in 0..Len(seq)] ==
            IF i = 0 THEN Zero
            ELSE RatAdd(Sum[i - 1], RatMulInt(PairFreq(seq[i]), Weight(seq[i])))
        Weights[i \in 0..Len(seq)] ==
            IF i = 0 THEN 0 ELSE Weights[i - 1] + Weight(seq[i])
    IN  RatDiv(Sum[Len(seq)], <<Weights[Len(seq)], 1>>)

\* C11 (as stated): when the pair co-occurs in each of the three most recent
\* months, the result is the weighted mean of the three frequencies with
\* weight 1 for the oldest, 2 for the middle and 3 for the newest month.
C11_Original ==
    (/\ ts_pc = "done"
     /\ Cardinality(DOMAIN monthly_cooccurrence) >= 3
     /\ NewestOf(DOMAIN monthly_cooccurrence, 3) \subseteq PairMonths)
    => ts_result = RecencyMean(NewestOf(DOMAIN monthly_cooccurrence, 3))

\* The result is 0.0 when no month of S holds the pair, and otherwise a mean
\* of the frequencies of the pair in the months of S only: positive and
\* between the smallest and the largest of them.
MeanOver(S) ==
    IF S = {} THEN ts_result = Zero
    ELSE /\ RatLt(Zero, ts_result)
         /\ \E m \in S : RatLeq(PairFreq(m), ts_result)
         /\ \E m \in S : RatLeq(ts_result, PairFreq(m))

\* C12 (as stated): the result is a weighted mean over the 3 most recent
\* months in which the pair co-occurs, wherever they lie in the table, and it
\* is 0.0 only when the pair co-occurs in no month.
C12_Original ==
    ts_pc = "done" => MeanOver(NewestOf(PairMonths, 3))

\* C12 (amended): the result is a weighted mean over those of the 3 most
\* recent months of the table in which the pair co-occurs; months lacking the
\* pair add nothing to numerator or denominator, and the result is 0.0
\* exactly when the pair co-occurs in none of these 3 months, also when it
\* co-occurs in an older month.
C12_Amended ==
    ts_pc = "done" =>
        LET used == NewestOf(DOMAIN monthly_cooccurrence, 3) \cap PairMonths
        IN  /\ MeanOver(used)
            /\ ts_result = Zero <=> used = {}

\* A call on a table of four months where the pair co-occurs in the oldest
\* month, is missing from one of the three most recent months and present in
\* another with a different frequency.
C12_Witness ==
    /\ ts_pc = "done"
    /\ Cardinality(DOMAIN monthly_cooccurrence) > 3
    /\ LET recent == NewestOf(DOMAIN monthly_cooccurrence, 3)
       IN  /\ PairMonths \ recent # {}
           /\ recent \ PairMonths # {}
           /\ Cardinality(recent \cap PairMonths) = 2
           /\ \E m1, m2 \in recent \cap PairMonths : PairFreq(m1) # PairFreq(m2)
    /\ RatLt(Zero, ts_result)

-----------------------------------------------------------------------------
(* Ranked source lists *)

\* Raw scores, in halves: -1.0, -0.5, 1.0.
Scores == {-2, -1, 2}
PositiveScores == {x \in Scores : x > 0}
\* similarity.rs line 65: (card.clone(), 1.0)
JaccardScore == 2

\* The names a direct caller gives its sources, in order.
CallerNames == <<"embedding", "gnn", "jaccard", "sideboard", "temporal">>

\* The (card, score) lists of up to maxlen entries, no card twice.
ListsOver(scores, maxlen) ==
    UNION { {q \in [1..n -> Cards \X scores] :
                \A i, j \in 1..n : i # j => q[i][1] # q[j][1]} :
            n \in 0..maxlen }

CapCards(n) == IF n < Cardinality(Cards) THEN n ELSE Cardinality(Cards)

\* The sequences of n lists holding at most `budget` entries together.
RECURSIVE ListSeqs(_, _)
ListSeqs(n, budget) ==
    IF n = 0 THEN {<<>>}
    ELSE UNION { {<<l>> \o rest : rest \in ListSeqs(n - 1, budget - Len(l))} :
                 l \in ListsOver(Scores, CapCards(budget)) }

Named(lists) ==
    [i \in 1..Len(lists) |-> [name |-> CallerNames[i], list |-> lists[i]]]

RECURSIVE TotalEntries(_)
TotalEntries(srcs) ==
    IF srcs = <<>> THEN 0 ELSE Len(Head(srcs).list) + TotalEntries(Tail(srcs))

CardsOf(list) == {list[i][1] : i \in 1..Len(list)}

-----------------------------------------------------------------------------
(* rank_fusion::rrf_weighted, by its contract *)

\* The rrf constants of RrfConfig tried.
RrfConstants == {1, 60}

\* A common denominator of 1 / (k + rank) over the ranks of a list.
RrfScale(k) == k * (k + 1) * (k + 2) * (k + 3)

\* weight / (k + rank), weight 1, rank from 0, times RrfScale(k)
RECURSIVE FusedScore(_, _, _)
FusedScore(lists, card, k) ==
    IF lists = <<>> THEN 0
    ELSE LET list == Head(lists)
             here == {i \in 1..Len(list) : list[i][1] = card}
             part == IF here = {} THEN 0
                     ELSE RrfScale(k) \div (k + (CHOOSE i \in here : TRUE) - 1)
         IN  part + FusedScore(Tail(lists), card, k)

Ok(list) == [tag |-> "Ok", list |-> list]
Err == [tag |-> "Err", list |-> <<>>]

\* The results rrf_weighted may return: the cards of the lists by fused
\* score, descending, cards of equal fused score in any order.  What it
\* returns for no list at all is not part of its contract.
RrfWeighted(lists, k) ==
    IF lists = <<>> THEN {Ok(<<>>), Err}
    ELSE LET cards == UNION {CardsOf(lists[i]) : i \in 1..Len(lists)}
         IN  {Ok(o) : o \in {o \in Orders(cards) :
                 \A i, j \in 1..Len(o) :
                     i < j => FusedScore(lists, o[i], k) >=
                              FusedScore(lists, o[j], k)}}

-----------------------------------------------------------------------------
(* generate_candidates_fused (lib.rs lines 55-105) *)

\* Candidate::new(card, vec![], HashMap::new())
NewCandidate(card) == [card |-> card, sources |-> <<>>, scores |-> EmptyMap]

Put(m, k, v) == [x \in DOMAIN m \cup {k} |-> IF x = k THEN v ELSE m[x]]

\* Mutant of AddEntry: a card already known keeps its first source only.
AddEntryFirstOnly(cands, name, card, score) ==
    IF card \in DOMAIN cands THEN cands
    ELSE Put(cands, card,
             [card |-> card, sources |-> <<name>>,
              scores |-> Put(EmptyMap, name, score)])

\* Lines 78-83: one (card, score) of the source `name`.
AddEntry(cands, name, card, score) ==
    LET old == Get(cands, card, NewCandidate(card))
    IN  Put(cands, card,
            [old EXCEPT !.sources = Append(old.sources, name),
                        !.scores = Put(old.scores, name, score)])

\* Lines 77-84: the entries of one source, in order.
RECURSIVE AddList(_, _, _, _)
AddList(cands, name, list, i) ==
    IF i > Len(list) THEN cands
    ELSE AddList(AddEntry(cands, name, list[i][1], list[i][2]), name, list,
                 i + 1)

\* Lines 73-85: the sources, in order.
RECURSIVE BuildCandidates(_, _, _)
BuildCandidates(cands, srcs, s) ==
    IF s > Len(srcs) THEN cands
    ELSE BuildCandidates(AddList(cands, srcs[s].name, srcs[s].list, 1), srcs,
                         s + 1)

\* Lines 88-91: fused.into_iter().filter_map(|(card, _)| candidates.remove(&card))
RECURSIVE TakeCandidates(_, _, _)
TakeCandidates(fused, cands, i) ==
    IF i > Len(fused) THEN <<>>
    ELSE IF fused[i] \in DOMAIN cands
         THEN <<cands[fused[i]]>> \o
              TakeCandidates(fused,
                  [c \in DOMAIN cands \ {fused[i]} |-> cands[c]], i + 1)
         ELSE TakeCandidates(fused, cands, i + 1)

\* Lines 96-97: scores.values().fold(0.0f32, |acc, &v| acc.max(v))
FoldMax(scores) ==
    LET vals == {scores[n] : n \in DOMAIN scores} \cup {0}
    IN  CHOOSE v \in vals : \A w \in vals : w <= v

\* Mutant of CandidateBefore: the score comparison the other way round.
CandidateBeforeAscending(a, b) ==
    \/ Len(b.sources) < Len(a.sources)
    \/ /\ Len(b.sources) = Len(a.sources)
       /\ FoldMax(a.scores) < FoldMax(b.scores)

\* Lines 94-102: the comparator is Less for (a, b).
CandidateBefore(a, b) ==
    \/ Len(b.sources) < Len(a.sources)
    \/ /\ Len(b.sources) = Len(a.sources)
       /\ FoldMax(b.scores) < FoldMax(a.scores)

\* Mutant of ReturnsEarly: the guard is missing.
ReturnsEarlyNever(srcs) == FALSE

\* Line 60: if sources.is_empty() { return Ok(vec![]); }
ReturnsEarly(srcs) == srcs = <<>>

\* The results generate_candidates_fused may return.
GenerateCandidatesFused(srcs, k) ==
    IF ReturnsEarly(srcs) THEN {Ok(<<>>)}
    ELSE LET lists == [i \in 1..Len(srcs) |-> srcs[i].list]
             cands == BuildCandidates(EmptyMap, srcs, 1)
         IN  {IF fused.tag = "Err" THEN Err
              ELSE LET taken == TakeCandidates(fused.list, cands, 1)
                   IN  Ok(StableSort(taken,
                          {p \in (1..Len(taken)) \X (1..Len(taken)) :
                              CandidateBefore(taken[p[1]], taken[p[2]])})) :
              fused \in RrfWeighted(lists, k)}

-----------------------------------------------------------------------------
(* SimilarityFunction::similar (similarity.rs lines 38-136) *)

\* sort_by(|a, b| b.1.partial_cmp(&a.1)...)
ScoreBefore(a, b) == b[2] < a[2]

\* The (card, score) pairs sorted by score, descending.
SortByScore(seq) ==
    StableSort(seq, {p \in (1..Len(seq)) \X (1..Len(seq)) :
                        ScoreBefore(seq[p[1]], seq[p[2]])})

Truncate(seq, n) == IF Len(seq) <= n THEN seq ELSE SubSeq(seq, 1, n)

Push(srcs, name, list) == Append(srcs, [name |-> name, list |-> list])

\* What a signal of the SimilarityFunction holds for the query: the field is
\* None ("none"), it has no entry for the query ("nodata"), or it yields the
\* (card, score) pairs `raw`, in the order its map hands them out.
Budget == MaxSignalEntries - TotalEntries(sources)

SignalStep(i, status, srcs) ==
    /\ f_pc = "sim"
    /\ f_step = i
    /\ f_step' = i + 1
    /\ f_status' = Append(f_status, status)
    /\ sources' = srcs
    /\ UNCHANGED <<f_pc, f_entry, f_k, f_result>>
    /\ UNCHANGED notFVars

\* Lines 42-57
SimEmbedding ==
    \/ \E status \in {"none", "nodata"} : SignalStep(1, status, sources)
    \/ \E raw \in ListsOver(Scores, CapCards(Budget)) :
          SignalStep(1, "data",
              Push(sources, "embedding",
                   Truncate(SortByScore(raw), f_k * 2)))

\* Lines 60-72
SimJaccard ==
    \/ \E status \in {"none", "nodata"} : SignalStep(2, status, sources)
    \/ \E raw \in ListsOver({JaccardScore}, CapCards(Budget)) :
          SignalStep(2, "data",
              Push(sources, "jaccard", Truncate(raw, f_k * 2)))

\* Lines 75-91: a sideboard table without the query yields no pair.
SimSideboard ==
    \/ \E status \in {"none", "nodata"} : SignalStep(3, status, sources)
    \/ \E raw \in ListsOver(PositiveScores, CapCards(Budget)) :
          LET scored == Truncate(SortByScore(raw), f_k)
          IN  /\ raw # <<>>
              /\ SignalStep(3, "data",
                     IF scored # <<>> THEN Push(sources, "sideboard", scored)
                     ELSE sources)

\* Lines 94-121: a pair met in an old month only scores 0, and only scores
\* above 0 are kept.
SimTemporal ==
    \/ \E status \in {"none", "nodata"} : SignalStep(4, status, sources)
    \/ \E raw \in ListsOver(PositiveScores \cup {0}, CapCards(Budget)) :
          LET kept == SelectSeq(raw, LAMBDA e : e[2] > 0)
              scored == Truncate(SortByScore(kept), f_k)
          IN  /\ raw # <<>>
              /\ SignalStep(4, "data",
                     IF scored # <<>> THEN Push(sources, "temporal", scored)
                     ELSE sources)

\* Lines 124-129, with GNNEmbedder::most_similar (gnn.rs lines 137-153)
SimGnn ==
    \/ \E status \in {"none", "nodata"} : SignalStep(5, status, sources)
    \/ \E raw \in ListsOver(Scores, CapCards(Budget)) :
          LET similar == Truncate(SortByScore(raw), f_k * 2)
          IN  SignalStep(5, "data",
                  IF similar # <<>> THEN Push(sources, "gnn", similar)
                  ELSE sources)

\* Lines 131-135
SimFuse ==
    /\ f_pc = "sim"
    /\ f_step = 6
    /\ IF sources = <<>>
       THEN f_result' = Ok(<<>>)
       ELSE \E k \in RrfConstants :
               f_result' \in GenerateCandidatesFused(sources, k)
    /\ f_pc' = "done"
    /\ UNCHANGED <<f_entry, f_k, f_step, f_status, sources>>
    /\ UNCHANGED notFVars

-----------------------------------------------------------------------------
(* The fusion engine as a state machine *)

InitFusion ==
    /\ SideboardIdle
    /\ TemporalIdle
    /\ LaterIdle
    /\ f_pc = "idle"
    /\ f_entry = "none"
    /\ f_k = 0
    /\ f_step = 0
    /\ f_status = <<>>
    /\ sources = <<>>
    /\ f_result = [tag |-> "None", list |-> <<>>]

\* A call of generate_candidates_fused with sources of the caller's own.
CallGenerateCandidatesFused ==
    /\ f_pc = "idle"
    /\ \E n \in 0..MaxSources : \E lists \in ListSeqs(n, MaxEntries) :
          /\ sources' = Named(lists)
          /\ \E k \in RrfConstants :
                f_result' \in GenerateCandidatesFused(Named(lists), k)
    /\ f_pc' = "done"
    /\ f_entry' = "fused"
    /\ UNCHANGED <<f_k, f_step, f_status>>
    /\ UNCHANGED notFVars

\* A call of similar(query, k): line 39.
CallSimilar ==
    /\ f_pc = "idle"
    /\ f_pc' = "sim"
    /\ f_entry' = "similar"
    /\ f_k' \in 0..MaxK
    /\ f_step' = 1
    /\ UNCHANGED <<f_status, sources, f_result>>
    /\ UNCHANGED notFVars

NextFusion ==
    \/ CallGenerateCandidatesFused
    \/ CallSimilar
    \/ SimEmbedding
    \/ SimJaccard
    \/ SimSideboard
    \/ SimTemporal
    \/ SimGnn
    \/ SimFuse

SpecFusion == InitFusion /\ [][NextFusion]_vars

-----------------------------------------------------------------------------
(* The candidate list against the source lists *)

Returned == f_pc = "done" /\ f_result.tag = "Ok"

\* The raw score of the card in a list holding it.
ScoreIn(list, card) == list[CHOOSE i \in 1..Len(list) : list[i][1] = card][2]

\* The positions of the sources whose list holds the card.
Holding(card) == {i \in 1..Len(sources) : card \in CardsOf(sources[i].list)}

\* The largest raw score of a candidate over its sources.
HighestScore(c) ==
    LET vals == {c.scores[n] : n \in DOMAIN c.scores}
    IN  CHOOSE v \in vals : \A w \in vals : w <= v

Ranked(list) == \A i, j \in 1..Len(list) : i < j => list[i][2] >= list[j][2]

\* C4 as stated, for source lists each ranked by non-increasing raw score:
\* whenever candidate x precedes candidate y in the returned list, x has more
\* sources than y, or equally many and a maximum raw score at least that of y.
C4_Original ==
    (Returned /\ \A s \in 1..Len(sources) : Ranked(sources[s].list)) =>
        \A i, j \in 1..Len(f_result.list) :
            i < j =>
                LET x == f_result.list[i]
                    y == f_result.list[j]
                IN  \/ Len(x.sources) > Len(y.sources)
                    \/ /\ Len(x.sources) = Len(y.sources)
                       /\ HighestScore(x) >= HighestScore(y)

\* C5: the returned list holds exactly one candidate per card of the source
\* lists and no other; a candidate's sources are the names of the lists
\* holding the card, each once and in input order, and its scores map each
\* of those names to the card's raw score in that list.
C5_Attribution ==
    Returned =>
        LET out == f_result.list
            cards == UNION {CardsOf(sources[i].list) : i \in 1..Len(sources)}
        IN  /\ {out[i].card : i \in 1..Len(out)} = cards
            /\ Len(out) = Cardinality(cards)
            /\ \A i \in 1..Len(out) :
                  LET c == out[i]
                      at == SortedSeq(Holding(c.card))
                  IN  /\ c.sources = [p \in 1..Len(at) |-> sources[at[p]].name]
                      /\ DOMAIN c.scores = {sources[n].name : n \in Holding(c.card)}
                      /\ \A n \in Holding(c.card) :
                            c.scores[sources[n].name] =
                                ScoreIn(sources[n].list, c.card)

\* A returned list with a card of two sources and a card of one source.
C5_Witness ==
    /\ Returned
    /\ \E i, j \in 1..Len(f_result.list) :
          /\ Len(f_result.list[i].sources) = 2
          /\ Len(f_result.list[j].sources) = 1

StrictlyDecreasing(list) ==
    \A i, j \in 1..Len(list) : i < j => list[i][2] > list[j][2]

\* C6: with a single source list ranked by strictly decreasing raw score,
\* the candidates are returned in the order of the list.
C6_SingleSourceOrder ==
    (Returned /\ Len(sources) = 1 /\ StrictlyDecreasing(sources[1].list)) =>
        /\ Len(f_result.list) = Len(sources[1].list)
        /\ \A i \in 1..Len(f_result.list) :
              f_result.list[i].card = sources[1].list[i][1]

\* A single strictly decreasing list of three cards, two of them with
\* negative scores, has been fused.
C6_Witness ==
    /\ Returned
    /\ Len(sources) = 1
    /\ Len(sources[1].list) = 3
    /\ StrictlyDecreasing(sources[1].list)
    /\ sources[1].list[2][2] < 0

NoSignalHasData == \A i \in 1..Len(f_status) : f_status[i] \in {"none", "nodata"}

\* C7: generate_candidates_fused called with no source returns Ok(empty),
\* and similar returns Ok(empty) when every signal is absent or has no data
\* for the query.
C7_ZeroSources ==
    /\ (f_pc = "done" /\ f_entry = "fused" /\ sources = <<>>) =>
           f_result = Ok(<<>>)
    /\ (f_pc = "done" /\ f_entry = "similar" /\ NoSignalHasData) =>
           f_result = Ok(<<>>)

\* similar has returned for a function with an absent signal and a signal
\* that has no data for the query, and none with data.
C7_Witness ==
    /\ f_pc = "done"
    /\ f_entry = "similar"
    /\ NoSignalHasData
    /\ \E i, j \in 1..Len(f_status) :
          f_status[i] = "none" /\ f_status[j] = "nodata"

-----------------------------------------------------------------------------
(* MetricWithCI::from_scores as a state machine *)

\* The per-query values of the enumerated score sequences.
ScoreValues == {Zero, Rat(1, 2), One}

InitBootstrap ==
    /\ SideboardIdle
    /\ TemporalIdle
    /\ FusionIdle
    /\ SimilarityIdle
    /\ EvalIdle
    /\ QueryIdle
    /\ TestSetIdle
    /\ b_pc = "ready"
    /\ b_scores \in UNION { [1..n -> ScoreValues] : n \in 0..MaxScores }
    /\ n_bootstrap \in 0..MaxBootstrap
    /\ b_first = NoMetric
    /\ b_second = NoMetric

\* from_scores(&scores, n_bootstrap), evaluated a first and a second time on
\* the same arguments.
CallFromScores ==
    /\ b_pc \in {"ready", "once"}
    /\ \E outcome \in FromScores(b_scores, n_bootstrap) :
          IF b_pc = "ready"
          THEN b_pc' = "once" /\ b_first' = outcome /\ b_second' = b_second
          ELSE b_pc' = "twice" /\ b_second' = outcome /\ b_first' = b_first
    /\ UNCHANGED <<b_scores, n_bootstrap>>
    /\ UNCHANGED notBVars

NextBootstrap == CallFromScores

SpecBootstrap == InitBootstrap /\ [][NextBootstrap]_vars

-----------------------------------------------------------------------------
(* evaluate_similarity as a state machine *)

\* The n_bootstrap values tried for evaluate_similarity.
EvalBootstrapCounts == {0, 1}

\* The keys of test_set.queries, in the order the map hands them out.
QueryNames == <<"q1", "q2">>

InitEval ==
    /\ SideboardIdle
    /\ TemporalIdle
    /\ FusionIdle
    /\ SimilarityIdle
    /\ BootstrapIdle
    /\ QueryIdle
    /\ TestSetIdle
    /\ e_pc = "loop"
    /\ top_k \in 0..MaxTopK
    /\ e_n_bootstrap \in EvalBootstrapCounts
    /\ e_queries = {}
    /\ e_labels = NewLabels
    /\ e_predictions = <<>>
    /\ precision_scores = <<>>
    /\ recall_scores = <<>>
    /\ ndcg_scores = <<>>
    /\ mrr_scores = <<>>
    /\ e_result = NoMetrics

\* One iteration of the loop over test_set.queries (lines 108-174), on the
\* next key of the map; raw is what similarity_fn(query, top_k * 2) returns,
\* cards only.
EvaluateQuery(labels, raw) ==
    /\ e_pc = "loop"
    /\ Cardinality(e_queries) < Len(QueryNames)
    /\ e_queries' = e_queries \cup {QueryNames[Cardinality(e_queries) + 1]}
    /\ e_labels' = labels
    /\ e_predictions' = raw
    /\ LET all_relevant == AllRelevant(labels)
           relevant_set == RelevantSet(all_relevant)
           relevant_in_top_k == RelevantInTopK(raw, relevant_set, top_k)
           dcg == DcgOf(Take(raw, top_k), relevant_set, 1)
           n_ideal == IF Len(all_relevant) < top_k THEN Len(all_relevant)
                      ELSE top_k
           ideal_dcg == IdealDcgOf(n_ideal)
       IN  /\ precision_scores' =
                  Append(precision_scores, PrecisionOf(relevant_in_top_k, top_k))
           /\ recall_scores' =
                  Append(recall_scores, RecallOf(relevant_in_top_k, all_relevant))
           /\ ndcg_scores' = Append(ndcg_scores, NdcgOf(dcg, ideal_dcg))
           /\ mrr_scores' = Append(mrr_scores, MrrOf(raw, relevant_set))
    /\ UNCHANGED <<e_pc, top_k, e_n_bootstrap, e_result>>
    /\ UNCHANGED notEVars

\* After the loop (lines 176-182): the four from_scores calls.
FinishEvaluate ==
    /\ e_pc = "loop"
    /\ e_pc' = "done"
    /\ \E precision \in FromScores(precision_scores, e_n_bootstrap) :
       \E recall \in FromScores(recall_scores, e_n_bootstrap) :
       \E ndcg \in FromScores(ndcg_scores, e_n_bootstrap) :
       \E mrr \in FromScores(mrr_scores, e_n_bootstrap) :
          e_result' =
              IF "Panic" \in {precision.tag, recall.tag, ndcg.tag, mrr.tag}
              THEN EvalPanic
              ELSE EvaluationMetrics(precision.value, recall.value,
                                     ndcg.value, mrr.value,
                                     Cardinality(e_queries))
    /\ e_labels' = NewLabels
    /\ e_predictions' = <<>>
    /\ UNCHANGED <<top_k, e_n_bootstrap, e_queries, precision_scores,
                   recall_scores, ndcg_scores, mrr_scores>>
    /\ UNCHANGED notEVars

NextEval ==
    \/ \E labels \in LabelSets : \E raw \in PredictionLists :
          EvaluateQuery(labels, raw)
    \/ FinishEvaluate

SpecEval == InitEval /\ [][NextEval]_vars

\* The evaluation engine: either entry point.
InitMetrics == InitBootstrap \/ InitEval
NextMetrics == NextBootstrap \/ NextEval
SpecMetrics == InitMetrics /\ [][NextMetrics]_vars

-----------------------------------------------------------------------------
(* The per-query values against the labels and the predictions *)

\* A query has been evaluated and its values are the last of the vectors.
Evaluated == e_pc = "loop" /\ e_queries # {}

Last(seq) == seq[Len(seq)]

\* The cards that count as relevant: those of the three highest buckets.
RelevantCards ==
    {c \in EvalCards :
        \E i \in 1..Len(e_labels.highly_relevant) :
            e_labels.highly_relevant[i] = c}
    \cup {c \in EvalCards :
        \E i \in 1..Len(e_labels.relevant) : e_labels.relevant[i] = c}
    \cup {c \in EvalCards :
        \E i \in 1..Len(e_labels.somewhat_relevant) :
            e_labels.somewhat_relevant[i] = c}

\* The number of entries of the three highest buckets (|all_relevant|).
RelevantEntries ==
    Len(e_labels.highly_relevant) + Len(e_labels.relevant)
        + Len(e_labels.somewhat_relevant)

\* The 0-based ranks below n at which a relevant card is predicted.
HitRanks(n) ==
    {r \in 0..(n - 1) :
        r < Len(e_predictions) /\ e_predictions[r + 1] \in RelevantCards}

C15_ReciprocalRank ==
    Evaluated =>
        LET hits == HitRanks(Len(e_predictions))
        IN  /\ hits = {} => Last(mrr_scores) = Zero
            /\ hits # {} => Last(mrr_scores) = Rat(1, 1 + Min(hits))

\* A first hit at a rank in [K, 2K): MRR is positive and Precision@K is 0.
C15_Witness ==
    /\ Evaluated
    /\ top_k > 0
    /\ HitRanks(top_k) = {}
    /\ HitRanks(2 * top_k) # {}
    /\ RatLt(Zero, Last(mrr_scores))
    /\ Last(precision_scores) = Zero

\* The nDCG of the claim, in hundredths: a hit at rank r within the top K
\* is discounted by 1 / ln(r + 2), and so is the ideal DCG over the ranks
\* 0 .. min(|all_relevant|, K) - 1.
ClaimedNdcg ==
    LET Sum(ranks) ==
            LET S[r \in -1..top_k] ==
                    IF r = -1 THEN 0
                    ELSE S[r - 1] + (IF r \in ranks THEN InvLn(r + 2) ELSE 0)
            IN  S[top_k]
        dcg == Sum(HitRanks(top_k))
        n_ideal == IF RelevantEntries < top_k THEN RelevantEntries ELSE top_k
        ideal == Sum(0..(n_ideal - 1))
    IN  IF ideal = 0 THEN Zero ELSE Rat((100 * dcg) \div ideal, 100)

\* The prediction list names no card twice.
NoRepeat ==
    \A i, j \in 1..Len(e_predictions) :
        e_predictions[i] = e_predictions[j] => i = j

\* C16 (as stated): the nDCG of a query is the DCG with the discount
\* 1 / ln(r + 2) over the ideal DCG with the same discount (to within the
\* hundredth the values are kept to), and 0 when the ideal DCG is 0; stated
\* here for prediction lists without repeated cards.
C16_Original ==
    Evaluated /\ NoRepeat =>
        RatLeq(RatAbs(RatSub(Last(ndcg_scores), ClaimedNdcg)), Rat(1, 100))

-----------------------------------------------------------------------------
(* The confidence interval and the degenerate inputs *)

\* C17: whenever from_scores returns, the lower bound of ci_95 is at most the
\* upper bound.
C17_LowerLeqUpper ==
    /\ b_first.tag = "Ok" =>
          RatLeq(b_first.value.ci_95[1], b_first.value.ci_95[2])
    /\ b_second.tag = "Ok" =>
          RatLeq(b_second.value.ci_95[1], b_second.value.ci_95[2])

\* A call with two resamples returned an interval whose bounds differ.
C17_Witness ==
    /\ b_pc = "once"
    /\ n_bootstrap = 2
    /\ b_first.tag = "Ok"
    /\ RatLt(b_first.value.ci_95[1], b_first.value.ci_95[2])

\* C18: from_scores on an empty score sequence returns the all-zero metric
\* for any bootstrap count, and evaluate_similarity on a test set without
\* queries returns n_queries = 0 and four all-zero metrics, without failing.
C18_EmptyInputs ==
    /\ b_scores = <<>> /\ b_pc \in {"once", "twice"} =>
          b_first = MetricOk(MetricWithCI(Zero, Sqrt(Zero), <<Zero, Zero>>, 0))
    /\ e_pc = "done" /\ e_queries = {} =>
          /\ e_result.tag = "Ok"
          /\ e_result.n_queries = 0
          /\ \A metric \in {e_result.precision_at_k, e_result.recall_at_k,
                            e_result.ndcg_at_k, e_result.mrr} :
                metric = MetricWithCI(Zero, Sqrt(Zero), <<Zero, Zero>>, 0)

\* An evaluation of a test set without queries has returned, the bootstrap
\* count being 0.
C18_Witness ==
    /\ e_pc = "done"
    /\ e_queries = {}
    /\ e_n_bootstrap = 0
    /\ e_result.tag = "Ok"

\* C19 (as stated): two evaluations of the same score sequence with the same
\* bootstrap count return the same ci_95 bounds.
C19_Original ==
    b_pc = "twice" /\ b_first.tag = "Ok" /\ b_second.tag = "Ok" =>
        b_first.value.ci_95 = b_second.value.ci_95

-----------------------------------------------------------------------------
(* Two QueryGenerators built from the same degree map *)

\* The degree maps of the enumerated generators.
DegreeMaps == UNION { [S -> {1, 2}] : S \in SUBSET Cards }

Strategies == {"Random", "Popular", "Stratified"}
ExcludeSets == {{}, {"A"}}
Seeds == {0, 1}

InitQuery ==
    /\ SideboardIdle
    /\ TemporalIdle
    /\ FusionIdle
    /\ SimilarityIdle
    /\ BootstrapIdle
    /\ EvalIdle
    /\ TestSetIdle
    /\ q_pc = "new"
    /\ degree_map \in DegreeMaps
    /\ q_cards = <<>>
    /\ q_args = NoArgs
    /\ q_results = <<>>

\* QueryGenerator::new(degree_map.clone()) (lines 27-30): keys() hands the
\* cards out in the iteration order of this HashMap.
New ==
    /\ q_pc = "new"
    /\ \E order \in Orders(DOMAIN degree_map) :
          q_cards' = Append(q_cards, order)
    /\ q_pc' = IF Len(q_cards) = 1 THEN "sample" ELSE "new"
    /\ UNCHANGED <<degree_map, q_args, q_results>>
    /\ UNCHANGED notQVars

\* sample(n, strategy, &exclude, seed) on the first generator, then with the
\* same arguments on the second.
CallSample(args) ==
    /\ q_pc = "sample"
    /\ q_results # <<>> => args = q_args
    /\ q_args' = args
    /\ \E outcome \in Sample(q_cards[Len(q_results) + 1], degree_map, args) :
          q_results' = Append(q_results, outcome)
    /\ q_pc' = IF Len(q_results) = 1 THEN "done" ELSE "sample"
    /\ UNCHANGED <<degree_map, q_cards>>
    /\ UNCHANGED notQVars

NextQuery ==
    \/ New
    \/ \E n \in 0..MaxSample : \E strategy \in Strategies :
          \E exclude \in ExcludeSets : \E seed \in Seeds :
              CallSample(SampleArgs(n, strategy, exclude, seed))

SpecQuery == InitQuery /\ [][NextQuery]_vars

\* The subtraction of line 77 does not overflow in the call.
NoOverflow ==
    q_args.strategy = "Stratified" =>
        LET available == Cardinality(DOMAIN degree_map \ q_args.exclude)
            n == IF q_args.n < available THEN q_args.n ELSE available
        IN  n >= 2 * (IF n \div 3 < 1 THEN 1 ELSE n \div 3)

\* C20 (as stated): two generators built from equal degree maps return the
\* same sequence of cards for the same n, strategy, exclude set and seed;
\* stated here for the calls in which line 77 does not overflow.
C20_Original ==
    q_pc = "done" /\ NoOverflow => q_results[1] = q_results[2]

\* The number of cards sample is to return: min(n, available).
ExpectedCount ==
    LET available == Cardinality(DOMAIN degree_map \ q_args.exclude)
    IN  IF q_args.n < available THEN q_args.n ELSE available

\* C21 (as stated): with strategy Stratified, sample returns exactly
\* min(n, number of available cards) cards, for every n and every number of
\* available cards.
C21_Original ==
    q_args.strategy = "Stratified" =>
        \A i \in 1..Len(q_results) :
            /\ q_results[i].tag = "Ok"
            /\ Len(q_results[i].list) = ExpectedCount

-----------------------------------------------------------------------------
(* merge_annotations, save_test_set, load_test_set (test_set.rs) *)

\* Most tasks in one batch.
MaxTasks == 2

\* The fields of a Candidate that merge_annotations reads (relevance is an
\* Option<u8>) and those of an AnnotationTask.
GradedCandidate(card, relevance) == [card |-> card, relevance |-> relevance]
AnnotationTask(query, candidates) == [query |-> query, candidates |-> candidates]

\* Lines 86-91: the labels of one task.
RECURSIVE LabelsOf(_, _)
LabelsOf(labels, candidates) ==
    IF candidates = <<>> THEN labels
    ELSE LET candidate == Head(candidates)
         IN  LabelsOf(IF candidate.relevance # NoneField
                      THEN Add(labels, candidate.card, candidate.relevance[1])
                      ELSE labels,
                      Tail(candidates))

\* Mutant of SkipsTask: no task is skipped, the insert overwrites.
SkipsNoTask(queries, task) == FALSE

\* Lines 81-84
SkipsTask(queries, task) == task.query \in DOMAIN queries

\* Lines 80-94: the loop over the tasks.
RECURSIVE MergeTasks(_, _)
MergeTasks(queries, tasks) ==
    IF tasks = <<>> THEN queries
    ELSE LET task == Head(tasks)
         IN  MergeTasks(IF SkipsTask(queries, task) THEN queries
                        ELSE Put(queries, task.query,
                                 LabelsOf(NewLabels, task.candidates)),
                        Tail(tasks))

\* Mutant of MergedCount: the count the test set carried is kept.
MergedCountKept(before, queries) == before.num_queries

\* Line 96
MergedCount(before, queries) == Some(Cardinality(DOMAIN queries))

\* merge_annotations: it has no failing path, the result is always Ok.
MergeAnnotations(tasks, before) ==
    LET queries == MergeTasks(before.queries, tasks)
    IN  TestSet(MergedCount(before, queries), queries)

\* Mutant of SavedCount: the count the test set carried is written.
SavedCountKept(before) == before.num_queries

\* Line 70
SavedCount(before) == Some(Cardinality(DOMAIN before.queries))

\* Serialize of RelevanceLabels: the five fields, each with its array.
LabelsToJson(labels) ==
    << <<"highly_relevant", labels.highly_relevant>>,
       <<"relevant", labels.relevant>>,
       <<"somewhat_relevant", labels.somewhat_relevant>>,
       <<"marginally_relevant", labels.marginally_relevant>>,
       <<"irrelevant", labels.irrelevant>> >>

\* Deserialize of RelevanceLabels: a field the object lacks is empty
\* (#[serde(default)]).
RECURSIVE LabelsFromJson(_, _)
LabelsFromJson(labels, members) ==
    IF members = <<>> THEN labels
    ELSE LabelsFromJson([labels EXCEPT ![members[1][1]] = members[1][2]],
                        Tail(members))

\* serde_json::to_string_pretty (line 71-72): num_queries is left out when
\* it is None, and the queries are written in the order `order` in which the
\* HashMap hands them out.
ToJson(saved, order) ==
    JsonFile(saved.num_queries,
             [i \in 1..Len(order) |->
                 <<order[i], LabelsToJson(saved.queries[order[i]])>>])

\* Deserialize of the queries map: each member is inserted in turn.
RECURSIVE QueriesFromJson(_, _)
QueriesFromJson(queries, members) ==
    IF members = <<>> THEN queries
    ELSE QueriesFromJson(Put(queries, members[1][1],
                             LabelsFromJson(NewLabels, members[1][2])),
                         Tail(members))

\* serde_json::from_str (line 63): an absent num_queries is None.
FromJson(file) ==
    TestSet(file.num_queries, QueriesFromJson(EmptyMap, file.queries))

\* The queries of the batches and of the files.
TestQueries == {"q1", "q2"}

\* The candidate lists of the enumerated tasks: a graded and an ungraded
\* card, one card graded twice with different values, and a card with an
\* invalid grade.
CandidateLists ==
    { <<GradedCandidate("A", Some(4)), GradedCandidate("B", NoneField)>>,
      <<GradedCandidate("A", Some(4)), GradedCandidate("A", Some(0))>>,
      <<GradedCandidate("B", Some(1)), GradedCandidate("A", Some(9))>> }

Tasks == { AnnotationTask(query, candidates) :
              query \in TestQueries, candidates \in CandidateLists }

Batches == UNION { [1..n -> Tasks] : n \in 0..MaxTasks }

\* The test set files the run starts from: no query and no count; one query
\* whose object has one field only, with a stale count; one query with its
\* count; two queries without a count.
InitialFiles ==
    { JsonFile(NoneField, <<>>),
      JsonFile(Some(5), << <<"q1", << <<"relevant", <<"A">> >> >> >> >>),
      JsonFile(Some(1),
               << <<"q1", LabelsToJson(Add(Add(NewLabels, "A", 4), "B", 0))>> >>),
      JsonFile(NoneField,
               << <<"q2", LabelsToJson(Add(NewLabels, "B", 2))>>,
                  <<"q1", LabelsToJson(Add(NewLabels, "A", 3))>> >>) }

InitTestSet ==
    /\ SideboardIdle
    /\ TemporalIdle
    /\ FusionIdle
    /\ SimilarityIdle
    /\ BootstrapIdle
    /\ EvalIdle
    /\ QueryIdle
    /\ m_pc = "start"
    /\ m_file \in InitialFiles
    /\ test_set = NoTestSet
    /\ m_batch = <<>>
    /\ m_before = NoTestSet

\* load_test_set (lines 60-66), at the start and after a save.
LoadTestSet ==
    /\ m_pc \in {"start", "saved"}
    /\ test_set' = FromJson(m_file)
    /\ UNCHANGED m_before
    /\ m_pc' = IF m_pc = "start" THEN "loaded" ELSE "reloaded"
    /\ UNCHANGED <<m_file, m_batch>>
    /\ UNCHANGED notMVars

\* ts = merge_annotations(&batch, ts)?
CallMergeAnnotations(tasks) ==
    /\ m_pc \in {"loaded", "merged"}
    /\ test_set' = MergeAnnotations(tasks, test_set)
    /\ m_before' = test_set
    /\ m_batch' = tasks
    /\ m_pc' = "merged"
    /\ UNCHANGED m_file
    /\ UNCHANGED notMVars

\* save_test_set(&mut ts, &path) (lines 69-76)
SaveTestSet ==
    /\ m_pc \in {"loaded", "merged"}
    /\ test_set' = [test_set EXCEPT !.num_queries = SavedCount(test_set)]
    /\ \E order \in Orders(DOMAIN test_set.queries) :
          m_file' = ToJson(test_set', order)
    /\ m_before' = test_set
    /\ m_batch' = <<>>
    /\ m_pc' = "saved"
    /\ UNCHANGED notMVars

NextTestSet ==
    \/ LoadTestSet
    \/ \E tasks \in Batches : CallMergeAnnotations(tasks)
    \/ SaveTestSet

SpecTestSet == InitTestSet /\ [][NextTestSet]_vars

\* The labels the task at position i of the last batch carries.
TaskLabels(i) == LabelsOf(NewLabels, m_batch[i].candidates)

\* The task at position i names a query the test set did not hold.
NewTask(i) == m_batch[i].query \notin DOMAIN m_before.queries

\* C22: a merge leaves the labels of every query the test set already held
\* unchanged, whatever the batch says about that query, and the merged test
\* set holds every query the batch names.
C22_ExistingLabelsWin ==
    m_pc = "merged" =>
        /\ \A q \in DOMAIN m_before.queries :
              /\ q \in DOMAIN test_set.queries
              /\ test_set.queries[q] = m_before.queries[q]
        /\ \A i \in 1..Len(m_batch) :
              m_batch[i].query \in DOMAIN test_set.queries

\* A merge whose batch re-annotates an existing query with other labels and
\* brings a new query as well.
C22_Witness ==
    /\ m_pc = "merged"
    /\ \E i, j \in 1..Len(m_batch) :
          /\ ~NewTask(i)
          /\ TaskLabels(i) # m_before.queries[m_batch[i].query]
          /\ NewTask(j)
          /\ test_set.queries[m_batch[j].query] = TaskLabels(j)

\* C23: after a save the count in memory and in the file is the number of
\* queries, and the test set loaded back has the queries and labels of the
\* one saved and that count, whatever count was carried before the save.
C23_RoundTrip ==
    /\ m_pc = "saved" =>
          /\ test_set.queries = m_before.queries
          /\ test_set.num_queries = Some(Cardinality(DOMAIN test_set.queries))
          /\ m_file.num_queries = test_set.num_queries
    /\ m_pc = "reloaded" =>
          /\ test_set.queries = m_before.queries
          /\ test_set.num_queries = Some(Cardinality(DOMAIN test_set.queries))

\* A test set of two labelled queries, saved with a count other than its
\* size and loaded back.
C23_Witness ==
    /\ m_pc = "reloaded"
    /\ Cardinality(DOMAIN test_set.queries) = 2
    /\ m_before.num_queries # test_set.num_queries
    /\ \E q \in DOMAIN test_set.queries : test_set.queries[q] # NewLabels

Range(seq) == { seq[i] : i \in 1..Len(seq) }

BucketNames ==
    {"highly_relevant", "relevant", "somewhat_relevant",
     "marginally_relevant", "irrelevant"}

\* No card is in two buckets of the labels.
DisjointBuckets(labels) ==
    \A a, b \in BucketNames :
        a # b => Range(labels[a]) \cap Range(labels[b]) = {}

\* C24 (as stated): after any sequence of merges, no card is in more than
\* one bucket of a query's labels.
C24_Original ==
    \A q \in DOMAIN test_set.queries : DisjointBuckets(test_set.queries[q])

\* C27: a merge removes no query, merging the same batch again changes
\* nothing, a new query gets the labels of the first task of the batch that
\* names it, and num_queries is the number of queries.
C27_IdempotentMonotone ==
    m_pc = "merged" =>
        /\ DOMAIN m_before.queries \subseteq DOMAIN test_set.queries
        /\ MergeAnnotations(m_batch, test_set) = test_set
        /\ \A i \in 1..Len(m_batch) :
              (NewTask(i) /\ \A j \in 1..(i - 1) :
                                m_batch[j].query # m_batch[i].query)
                  => test_set.queries[m_batch[i].query] = TaskLabels(i)
        /\ test_set.num_queries = Some(Cardinality(DOMAIN test_set.queries))

\* A merge whose batch has two tasks with different labels for one new
\* query, into a test set whose count was not its size.
C27_Witness ==
    /\ m_pc = "merged"
    /\ m_before.num_queries # test_set.num_queries
    /\ \E i, j \in 1..Len(m_batch) :
          /\ i < j
          /\ NewTask(i)
          /\ m_batch[i].query = m_batch[j].query
          /\ TaskLabels(i) # TaskLabels(j)

-----------------------------------------------------------------------------
(* The flexibility table against the scanned decks *)

\* Among the decks `among`, the number holding the card in the main deck, in
\* the sideboard, and in both.
MainIn(among, card) == Cardinality({i \in among : card \in lines[i].mb})
SideIn(among, card) == Cardinality({i \in among : card \in lines[i].sb})
BothIn(among, card) ==
    Cardinality({i \in among : card \in lines[i].mb \cap lines[i].sb})

\* both / (main + side - both) over the decks `among`, 0 for an empty union.
FlexOver(among, card) ==
    LET union == MainIn(among, card) + SideIn(among, card) - BothIn(among, card)
    IN  IF union = 0 THEN Zero ELSE Rat(BothIn(among, card), union)

\* C25 (as stated): flexibility(card) is both / (main + side - both) with
\* the three counts taken over every deck of the input.
C25_Original ==
    sb_pc = "done" =>
        \A card \in Cards :
            FlexibilityScore(flexibility, card) = FlexOver(1..Len(lines), card)

\* C25 (amended): the three counts are taken over the decks whose sideboard
\* holds at least two cards; the other decks are skipped whole.
C25_Amended ==
    sb_pc = "done" =>
        \A card \in Cards :
            FlexibilityScore(flexibility, card) = FlexOver(PairedDecks, card)

\* A finished scan with a card of flexibility strictly between 0 and 1 that
\* is also in the main deck of a skipped deck.
C25_Witness ==
    /\ sb_pc = "done"
    /\ \E card \in Cards :
          /\ RatLt(Zero, FlexibilityScore(flexibility, card))
          /\ RatLt(FlexibilityScore(flexibility, card), One)
          /\ \E i \in 1..Len(lines) : i \notin PairedDecks /\ card \in lines[i].mb

-----------------------------------------------------------------------------
(* The monthly table against the decks of each month *)

\* Number of decks of the month that hold every card of the set.
DecksWith(month, held) ==
    Cardinality({i \in 1..Len(monthly_decks[month]) :
                    held \subseteq monthly_decks[month][i]})

\* C26: in the TemporalSignal returned, every month of the table has at least min_decks_per_month decks, and
\* every entry month[card][partner] has card and partner in at least 5 decks
\* of the month and is (decks holding both) / (decks holding card).
C26_MonthlyTable ==
    t_pc = "done" =>
        \A month \in DOMAIN monthly_cooccurrence :
            /\ month \in DOMAIN monthly_decks
            /\ Len(monthly_decks[month]) >= min_decks_per_month
            /\ \A card \in DOMAIN monthly_cooccurrence[month] :
                  \A partner \in DOMAIN monthly_cooccurrence[month][card] :
                      /\ DecksWith(month, {card}) >= 5
                      /\ DecksWith(month, {partner}) >= 5
                      /\ monthly_cooccurrence[month][card][partner] =
                             Rat(DecksWith(month, {card, partner}),
                                 DecksWith(month, {card}))

\* A table built with a positive threshold that keeps a month in which a
\* card of fewer than 5 decks has no entry, and drops a month of too few
\* decks.
C26_Witness ==
    /\ t_pc = "done"
    /\ min_decks_per_month > 0
    /\ \E month \in DOMAIN monthly_cooccurrence :
          \E card \in DOMAIN monthly_cooccurrence[month] :
              \E other \in Cards :
                  /\ DecksWith(month, {card, other}) > 0
                  /\ DecksWith(month, {other}) < 5
                  /\ other \notin DOMAIN monthly_cooccurrence[month][card]
    /\ \E month \in DOMAIN monthly_decks :
          /\ Len(monthly_decks[month]) < min_decks_per_month
          /\ month \notin DOMAIN monthly_cooccurrence

-----------------------------------------------------------------------------
(* from_scores never failing *)

\* C28 (as stated): from_scores returns a value for every score sequence and
\* every bootstrap count, a bootstrap count of 0 included.
C28_Original ==
    /\ b_pc \in {"once", "twice"} => b_first.tag = "Ok"
    /\ b_pc = "twice" => b_second.tag = "Ok"

-----------------------------------------------------------------------------
(* The range of the per-query values *)

\* C29 (as stated): the precision, recall, nDCG and reciprocal rank of every
\* query lie in [0,1], for every label set and every prediction list.
C29_Original ==
    Evaluated =>
        /\ InUnit(Last(precision_scores))
        /\ InUnit(Last(recall_scores))
        /\ InUnit(Last(ndcg_scores))
        /\ InUnit(Last(mrr_scores))

=============================================================================
